---------------------------- MODULE Spec2Model ----------------------------
(***************************************************************************)
(* HAOS Kiosk REST server (src/haoskiosk/rest_server.py) and its           *)
(* ultrasonic display trigger (src/haoskiosk/examples).                    *)
(*                                                                         *)
(* Seven specifications share this module:                                 *)
(*   Spec        the process execution engine (execute_command): permits,  *)
(*               the active-process set, timeouts, cancellation;           *)
(*   SpecPolicy  the command authorization function is_command_allowed,    *)
(*               applied to bounded command strings, in an interpreter     *)
(*               that can be restarted;                                    *)
(*   SpecHTTP    one request through security_middleware and, when it is   *)
(*               dispatched, through make_handler, while the calls of      *)
(*               other requests take and return permits;                   *)
(*   SpecOp      one request for a registered operation through            *)
(*               make_handler, the register_function wrapper and the       *)
(*               handler, one suspension at a time, with every payload of  *)
(*               at most MaxKeys keys, the same parameter dict passed to   *)
(*               the wrapper again, and the calls of other requests;       *)
(*   SpecServe   up to MaxRequests such requests served concurrently;      *)
(*   SpecLive    the engine under the calls of launch_url and display_off  *)
(*               with a fair event loop;                                   *)
(*   SpecTrigger examples/ultrasonic-trigger.py, a client of the display   *)
(*               operations, from its start to its end, restarts included. *)
(*                                                                         *)
(* Text is modelled at character level: a Python str is a sequence of      *)
(* one-character strings, so that splitting, stripping, shell-word parsing *)
(* and formatting are computed, not assumed.                               *)
(***************************************************************************)
EXTENDS Naturals, Integers, Sequences, FiniteSets, Bags, TLC

VARIABLES
    ALLOW_ALL_USER_COMMANDS,   \* rest_server.py:77   policy override flag
    COMPILED_WHITELIST_REGEX,  \* rest_server.py:95   None or the compiled whitelist
    REST_BEARER_TOKEN,         \* rest_server.py:73   None or the configured token
    tasks,                     \* the execute_command coroutines in flight, and orphaned children
    last,                      \* the call that has just ended, until its caller resumes
    sem_value,                 \* _command_semaphore._value (rest_server.py:179)
    command_str,               \* SpecPolicy: the argument of is_command_allowed
    decision,                  \* SpecPolicy: its return value
    hash_order,                \* SpecPolicy: what the str hashes of the running interpreter make it return
    request,                   \* SpecHTTP: the request being served
    stage,                     \* SpecHTTP: position of the request in the middleware
    response,                  \* SpecHTTP: status of the response, 0 while none
    handlers,                  \* SpecOp, SpecServe: the make_handler coroutines, one per request slot
                               \* (no slot in the other specifications)
    trigger                    \* SpecTrigger: where examples/ultrasonic-trigger.py stands, its globals
                               \* and the request of its last loop (NotRunning in the other specifications)

\* the ultrasonic trigger script is not part of the server
NotRunning == <<>>

vars == <<ALLOW_ALL_USER_COMMANDS, COMPILED_WHITELIST_REGEX, REST_BEARER_TOKEN,
          tasks, last, sem_value, command_str, decision, hash_order, request, stage, response,
          handlers, trigger>>

\* REST_BEARER_TOKEN is None or a non-empty str (line 73 maps "" to None):
\* None is the empty sequence
None == <<>>

-----------------------------------------------------------------------------
(* Text helpers: Python str operations on character sequences.             *)

\* shlex.whitespace: blank, tab, carriage return, newline
ShlexWhitespace == {" ", "\t", "\r", "\n"}

\* characters that have no one-character string here are named, like BQ
VT == "VT"
UnicodeSpaces ==
    {"U+001C", "U+001D", "U+001E", "U+001F", "U+0085", "U+00A0", "U+1680", "U+2000", "U+2001",
     "U+2002", "U+2003", "U+2004", "U+2005", "U+2006", "U+2007", "U+2008", "U+2009", "U+200A",
     "U+2028", "U+2029", "U+202F", "U+205F", "U+3000"}

\* the characters str.strip() removes and \s matches (str.isspace): the
\* ASCII ones, form feed and vertical tab included, and the Unicode spaces
Whitespace == {" ", "\t", "\n", "\r", "\f", VT} \cup UnicodeSpaces

RECURSIVE LStrip(_)
LStrip(s) ==
    IF s # <<>> /\ Head(s) \in Whitespace THEN LStrip(Tail(s)) ELSE s

RECURSIVE RStrip(_)
RStrip(s) ==
    IF s # <<>> /\ s[Len(s)] \in Whitespace THEN RStrip(SubSeq(s, 1, Len(s) - 1)) ELSE s

\* str.strip()
Strip(s) == RStrip(LStrip(s))

\* the set of characters occurring in s
Chars(s) == {s[i] : i \in 1..Len(s)}

\* prefix.join-free startswith on sequences
StartsWith(s, p) == Len(s) >= Len(p) /\ SubSeq(s, 1, Len(p)) = p

-----------------------------------------------------------------------------
(* Security model: rest_server.py:88-137                                   *)

\* ALLOWED_PATHS = {"/bin", "/usr/bin", "/usr/local/bin"}; a path is the
\* sequence of its components
ALLOWED_PATHS ==
    { << <<"b","i","n">> >>,
      << <<"u","s","r">>, <<"b","i","n">> >>,
      << <<"u","s","r">>, <<"l","o","c","a","l">>, <<"b","i","n">> >> }

\* The language of DEFAULT_COMMAND_WHITELIST_REGEX once anchored ^(?:...)$
DEFAULT_COMMAND_WHITELIST_REGEX == {
    <<"c","a","t">>, <<"d","a","t","e">>, <<"d","b","u","s","-","s","e","n","d">>,
    <<"e","c","h","o">>, <<"f","a","l","s","e">>, <<"g","r","e","p">>, <<"h","e","a","d">>,
    <<"l","s">>, <<"l","u","a","k","i","t">>, <<"n","o","t","i","f","y","-","s","e","n","d">>,
    <<"p","i","n","g">>, <<"p","i","n","g","6">>, <<"p","s">>, <<"p","s","t","r","e","e">>,
    <<"s","l","e","e","p">>, <<"t","a","i","l">>, <<"t","e","s","t">>, <<"t","o","p">>,
    <<"t","r","e","e">>, <<"x","d","o","t","o","o","l">>, <<"x","s","e","t">> }

\* A whitelist given by COMMAND_WHITELIST that also names blacklisted programs
CustomWhitelist == { <<"l","s">>, <<"s","h">>, <<"r","m">>, <<"z","z">> }

\* The values COMPILED_WHITELIST_REGEX takes (rest_server.py:93-102):
\*   kind "none"   COMMAND_WHITELIST="" : COMPILED_WHITELIST_REGEX is None
\*   kind "names"  an alternation of literal names, anchored ^(?:...)$
\*                 (names = {} is "(?!)", set after a compile error)
\*   kind "any"    COMMAND_WHITELIST=".*"
WhitelistConfigs ==
    { [kind |-> "none", names |-> {}],
      [kind |-> "any", names |-> {}],
      [kind |-> "names", names |-> DEFAULT_COMMAND_WHITELIST_REGEX],
      [kind |-> "names", names |-> CustomWhitelist],
      [kind |-> "names", names |-> {}] }

\* COMPILED_WHITELIST_REGEX.fullmatch(prog); "." does not match a newline
WhitelistFullmatch(wl, prog) ==
    IF wl.kind = "any" THEN "\n" \notin Chars(prog) ELSE prog \in wl.names

BlacklistNames == {
    <<"a","s","h">>, <<"b","a","s","h">>, <<"s","h">>, <<"s","u">>, <<"e","n","v">>,
    <<"e","x","e","c">>, <<"k","i","l","l">>, <<"k","i","l","l","a","l","l">>,
    <<"p","k","i","l","l">>, <<"c","p">>, <<"c","h","m","o","d">>, <<"c","h","o","w","n">>,
    <<"d","d">>, <<"l","n">>, <<"m","v">>, <<"r","m">>, <<"t","a","r">>,
    <<"m","o","u","n","t">>, <<"u","m","o","u","n","t">>, <<"c","u","r","l">>, <<"n","c">>,
    <<"w","g","e","t">>, <<"f","i","n","d">>, <<"x","a","r","g","s">> }

Digits == {"0","1","2","3","4","5","6","7","8","9"}

\* decimal digits (category Nd) beyond ASCII, each named by its code point:
\* ARABIC-INDIC DIGIT THREE and FULLWIDTH DIGIT ONE stand for the others
UnicodeDigits == {"U+0663", "U+FF11"}

\* \d in a str pattern compiled without re.ASCII
DecimalClass == Digits \cup UnicodeDigits

\* python[\d.]+
IsPythonName(prog) ==
    /\ Len(prog) > 6
    /\ SubSeq(prog, 1, 6) = <<"p","y","t","h","o","n">>
    /\ \A i \in 7..Len(prog) : prog[i] \in DecimalClass \cup {"."}

\* COMPILED_BLACKLIST_REGEX.fullmatch(prog)
COMPILED_BLACKLIST_REGEX(prog) == prog \in BlacklistNames \/ IsPythonName(prog)

\* SEPARATORS, tried longest first as SEP_REGEX orders them
SEPARATORS2 == { <<"&","&">>, <<"|","|">>, <<"$","(">>, <<"$","{">>, <<"[","[">>, <<"(","(">> }
\* BQ stands for the backquote character
BQ == "BQ"
SEPARATORS1 == { ";", "|", "&", BQ, "(", "{" }

RECURSIVE SepSplitFrom(_, _, _, _)
SepSplitFrom(s, i, cur, acc) ==
    IF i > Len(s) THEN Append(acc, cur)
    ELSE IF i < Len(s) /\ <<s[i], s[i+1]>> \in SEPARATORS2
         THEN SepSplitFrom(s, i + 2, <<>>, Append(acc, cur))
    ELSE IF s[i] \in SEPARATORS1
         THEN SepSplitFrom(s, i + 1, <<>>, Append(acc, cur))
    ELSE SepSplitFrom(s, i + 1, Append(cur, s[i]), acc)

\* SEP_REGEX.split(command_str)
SEP_REGEX_split(s) == SepSplitFrom(s, 1, <<>>, <<>>)


-----------------------------------------------------------------------------
(* shlex.split(part): posix mode, whitespace_split, no comment characters. *)
(* The reader is the state machine of shlex.read_token: state "ws" is the  *)
(* initial blank state, "a" a word, "sq"/"dq" inside quotes, "esc" after a *)
(* backslash (esc remembers the state to return to).  A ValueError (no     *)
(* closing quotation, no escaped character) gives ok = FALSE.              *)

RECURSIVE ShlexRun(_, _, _, _, _, _, _)
ShlexRun(s, i, state, esc, tok, quoted, toks) ==
    IF i > Len(s) THEN
        CASE state \in {"sq", "dq", "esc"} -> [ok |-> FALSE, tokens |-> <<>>]
          [] state = "a" /\ (tok # <<>> \/ quoted) -> [ok |-> TRUE, tokens |-> Append(toks, tok)]
          [] OTHER -> [ok |-> TRUE, tokens |-> toks]
    ELSE LET c == s[i] IN
        CASE state = "ws" ->
                IF c \in ShlexWhitespace THEN ShlexRun(s, i + 1, "ws", esc, <<>>, FALSE, toks)
                ELSE IF c = "\\" THEN ShlexRun(s, i + 1, "esc", "a", <<>>, FALSE, toks)
                ELSE IF c = "'" THEN ShlexRun(s, i + 1, "sq", esc, <<>>, TRUE, toks)
                ELSE IF c = "\"" THEN ShlexRun(s, i + 1, "dq", esc, <<>>, TRUE, toks)
                ELSE ShlexRun(s, i + 1, "a", esc, <<c>>, FALSE, toks)
          [] state = "a" ->
                IF c \in ShlexWhitespace THEN
                    IF tok # <<>> \/ quoted
                    THEN ShlexRun(s, i + 1, "ws", esc, <<>>, FALSE, Append(toks, tok))
                    ELSE ShlexRun(s, i + 1, "ws", esc, tok, quoted, toks)
                ELSE IF c = "'" THEN ShlexRun(s, i + 1, "sq", esc, tok, TRUE, toks)
                ELSE IF c = "\"" THEN ShlexRun(s, i + 1, "dq", esc, tok, TRUE, toks)
                ELSE IF c = "\\" THEN ShlexRun(s, i + 1, "esc", "a", tok, quoted, toks)
                ELSE ShlexRun(s, i + 1, "a", esc, Append(tok, c), quoted, toks)
          [] state = "sq" ->
                IF c = "'" THEN ShlexRun(s, i + 1, "a", esc, tok, TRUE, toks)
                ELSE ShlexRun(s, i + 1, "sq", esc, Append(tok, c), TRUE, toks)
          [] state = "dq" ->
                IF c = "\"" THEN ShlexRun(s, i + 1, "a", esc, tok, TRUE, toks)
                ELSE IF c = "\\" THEN ShlexRun(s, i + 1, "esc", "dq", tok, TRUE, toks)
                ELSE ShlexRun(s, i + 1, "dq", esc, Append(tok, c), TRUE, toks)
          [] state = "esc" ->
                IF esc = "dq" /\ c # "\\" /\ c # "\""
                THEN ShlexRun(s, i + 1, esc, esc, tok \o <<"\\", c>>, quoted, toks)
                ELSE ShlexRun(s, i + 1, esc, esc, Append(tok, c), quoted, toks)

\* shlex.split(s): [ok |-> FALSE] stands for ValueError
shlex_split(s) == ShlexRun(s, 1, "ws", "a", <<>>, FALSE, <<>>)

-----------------------------------------------------------------------------
(* The executable search path and the filesystem the server runs on: the   *)
(* environment of shutil.which and os.path.realpath.                       *)

Executables == {
    << <<"b","i","n">>, <<"l","s">> >>,
    << <<"b","i","n">>, <<"r","m">> >>,
    << <<"b","i","n">>, <<"s","h">> >>,
    << <<"b","i","n">>, <<"c","a","t">> >>,
    << <<"b","i","n">>, <<"d","a","t","e">> >>,
    << <<"b","i","n">>, <<"e","c","h","o">> >>,
    << <<"b","i","n">>, <<"s","l","e","e","p">> >>,
    << <<"b","i","n">>, <<"f","a","l","s","e">> >>,
    << <<"s","b","i","n">>, <<"p","i","n","g">> >>,
    << <<"u","s","r">>, <<"b","i","n">>, <<"x","s","e","t">> >>,
    << <<"u","s","r">>, <<"b","i","n">>, <<"x","d","o","t","o","o","l">> >>,
    << <<"u","s","r">>, <<"b","i","n">>, <<"l","u","a","k","i","t">> >>,
    << <<"u","s","r">>, <<"b","i","n">>, <<"e","n","v">> >>,
    << <<"u","s","r">>, <<"l","o","c","a","l">>, <<"b","i","n">>, <<"t","r","e","e">> >>,
    << <<"u","s","r">>, <<"l","o","c","a","l">>, <<"b","i","n">>, <<"g","r","e","p">> >>,
    << <<"u","s","r">>, <<"l","o","c","a","l">>, <<"b","i","n">>, <<"g","n","u">>, <<"g","r","e","p">> >>,
    << <<"o","p","t">>, <<"t","r","e","e">>, <<"t","r","e","e">> >> }

\* os.environ["PATH"] = /usr/local/bin:/usr/bin:/sbin:/bin
PATH == <<
    << <<"u","s","r">>, <<"l","o","c","a","l">>, <<"b","i","n">> >>,
    << <<"u","s","r">>, <<"b","i","n">> >>,
    << <<"s","b","i","n">> >>,
    << <<"b","i","n">> >> >>

\* symbolic links: /usr/local/bin/tree -> /opt/tree/tree,
\*                 /usr/local/bin/grep -> /usr/local/bin/gnu/grep
Symlinks ==
    (<< <<"u","s","r">>, <<"l","o","c","a","l">>, <<"b","i","n">>, <<"t","r","e","e">> >>
        :> << <<"o","p","t">>, <<"t","r","e","e">>, <<"t","r","e","e">> >>)
    @@
    (<< <<"u","s","r">>, <<"l","o","c","a","l">>, <<"b","i","n">>, <<"g","r","e","p">> >>
        :> << <<"u","s","r">>, <<"l","o","c","a","l">>, <<"b","i","n">>, <<"g","n","u">>, <<"g","r","e","p">> >>)

\* a path string split at "/" into its non-empty components, "." and ".."
\* among them; a path is read from / (the server's working directory is /)
RECURSIVE PathComponents(_, _, _)
PathComponents(s, cur, acc) ==
    IF s = <<>> THEN (IF cur = <<>> THEN acc ELSE Append(acc, cur))
    ELSE IF Head(s) = "/"
         THEN PathComponents(Tail(s), <<>>, IF cur = <<>> THEN acc ELSE Append(acc, cur))
    ELSE PathComponents(Tail(s), Append(cur, Head(s)), acc)

\* the directories: / and every ancestor of an executable
Directories == UNION {{SubSeq(e, 1, n) : n \in 0..(Len(e) - 1)} : e \in Executables}

\* the file the kernel reaches by walking the components from directory
\* `at`, following symbolic links; [ok |-> FALSE] when a component is
\* missing or a component that is not a directory is walked through
RECURSIVE Walk(_, _)
Walk(at, comps) ==
    IF at \notin Directories THEN [ok |-> FALSE, path |-> <<>>]
    ELSE IF comps = <<>> THEN [ok |-> TRUE, path |-> at]
    ELSE LET c == Head(comps)
             to == IF c = <<".">> THEN at
                   ELSE IF c = <<".", ".">> THEN SubSeq(at, 1, Len(at) - (IF at = <<>> THEN 0 ELSE 1))
                   ELSE Append(at, c)
             target == IF to \in DOMAIN Symlinks THEN Symlinks[to] ELSE to
         IN IF Tail(comps) = <<>> /\ target \in Executables
            THEN [ok |-> TRUE, path |-> target]
            ELSE Walk(target, Tail(comps))

\* os.path.exists, os.access(X_OK) and not os.path.isdir of a name that
\* holds a "/": an executable file is reached, and the name does not end
\* in "/" (which asks for a directory)
IsExecutableFile(name) ==
    /\ name[Len(name)] # "/"
    /\ Walk(<<>>, PathComponents(name, <<>>, <<>>)).ok
    /\ Walk(<<>>, PathComponents(name, <<>>, <<>>)).path \in Executables

RECURSIVE WhichIn(_, _)
WhichIn(dirs, prog) ==
    IF dirs = <<>> THEN <<>>
    ELSE IF Append(Head(dirs), prog) \in Executables THEN Append(Head(dirs), prog)
    ELSE WhichIn(Tail(dirs), prog)

\* shutil.which(prog) or "": the path found, as its components, <<>> for
\* "" (not found).  A name that holds a "/" is not searched for: it is
\* returned as it is if it names an executable file
which(prog) ==
    IF "/" \in Chars(prog)
    THEN (IF IsExecutableFile(prog) THEN PathComponents(prog, <<>>, <<>>) ELSE <<>>)
    ELSE WhichIn(PATH, prog)

\* os.path.realpath(path): "." dropped, ".." resolved, symbolic links
\* followed, component by component; what does not exist is kept
RECURSIVE RealFrom(_, _)
RealFrom(at, comps) ==
    IF comps = <<>> THEN at
    ELSE LET c == Head(comps)
             to == IF c = <<".">> THEN at
                   ELSE IF c = <<".", ".">> THEN SubSeq(at, 1, Len(at) - (IF at = <<>> THEN 0 ELSE 1))
                   ELSE Append(at, c)
         IN RealFrom(IF to \in DOMAIN Symlinks THEN Symlinks[to] ELSE to, Tail(comps))

realpath(path) == RealFrom(<<>>, path)

\* is_path_allowed(prog_path): real_path.startswith(allowed + "/")
is_path_allowed(prog_path) ==
    \E allowed \in ALLOWED_PATHS :
        /\ Len(realpath(prog_path)) > Len(allowed)
        /\ StartsWith(realpath(prog_path), allowed)

-----------------------------------------------------------------------------
(* is_command_allowed: rest_server.py:193-241                              *)
(* The module globals it reads are passed as cfg:                          *)
(*   [allow_all |-> ALLOW_ALL_USER_COMMANDS,                               *)
(*    whitelist |-> COMPILED_WHITELIST_REGEX]                              *)

Result(allowed, reason, prog) == [allowed |-> allowed, reason |-> reason, prog |-> prog]

\* the configuration in force
Config == [allow_all |-> ALLOW_ALL_USER_COMMANDS, whitelist |-> COMPILED_WHITELIST_REGEX]

\* lines 204-214: the program named by one fragment, as a set of 0 or 1 names
ProgramOfPart(part) ==
    IF Strip(part) = <<>> THEN {}
    ELSE IF ~shlex_split(Strip(part)).ok THEN {}
    ELSE IF shlex_split(Strip(part)).tokens = <<>> THEN {}
    ELSE {shlex_split(Strip(part)).tokens[1]}

RECURSIVE ProgramsOfParts(_)
ProgramsOfParts(parts) ==
    IF parts = <<>> THEN {}
    ELSE ProgramOfPart(Head(parts)) \cup ProgramsOfParts(Tail(parts))

\* lines 202-214: programs = set of first tokens of the fragments
Programs(cmd) == ProgramsOfParts(SEP_REGEX_split(cmd))

\* variant of CheckProgram: a whitelisted program is still checked against
\* the blacklist
CheckProgramBlacklistAlways(cfg, prog) ==
    IF which(prog) = <<>> THEN "Program not found"
    ELSE IF ~is_path_allowed(which(prog)) THEN "Program not in allowed paths"
    ELSE IF cfg.whitelist.kind # "none" /\ ~WhitelistFullmatch(cfg.whitelist, prog)
         THEN "Program not in Whitelist"
    ELSE IF COMPILED_BLACKLIST_REGEX(prog) THEN "Blacklisted program"
    ELSE "ok"

\* variant of CheckProgram: the blacklist is never consulted
CheckProgramNoBlacklist(cfg, prog) ==
    IF which(prog) = <<>> THEN "Program not found"
    ELSE IF ~is_path_allowed(which(prog)) THEN "Program not in allowed paths"
    ELSE IF cfg.whitelist.kind # "none" /\ ~WhitelistFullmatch(cfg.whitelist, prog)
         THEN "Program not in Whitelist"
    ELSE "ok"

\* lines 220-238: the body of the loop for one program; "ok" when the loop
\* goes on to the next program
CheckProgram(cfg, prog) ==
    IF which(prog) = <<>> THEN "Program not found"
    ELSE IF ~is_path_allowed(which(prog)) THEN "Program not in allowed paths"
    ELSE IF cfg.whitelist.kind # "none"
         THEN (IF ~WhitelistFullmatch(cfg.whitelist, prog)
               THEN "Program not in Whitelist" ELSE "ok")
    ELSE IF COMPILED_BLACKLIST_REGEX(prog) THEN "Blacklisted program"
    ELSE "ok"

\* is_command_allowed(command_str): the set of values the call can return.
\* The loop visits the Python set `programs` in hash order and returns at
\* the first program that fails, so any failing program can be the one named.
is_command_allowed(cfg, cmd) ==
    IF cfg.allow_all THEN {Result(TRUE, "All commands allowed", <<>>)}
    ELSE IF Programs(cmd) = {} THEN {Result(FALSE, "No programs found", <<>>)}
    ELSE IF \A p \in Programs(cmd) : CheckProgram(cfg, p) = "ok"
         THEN {Result(TRUE, "Safe - Whitelisted", <<>>)}
    ELSE {Result(FALSE, CheckProgram(cfg, p), p) :
             p \in {q \in Programs(cmd) : CheckProgram(cfg, q) # "ok"}}

-----------------------------------------------------------------------------
(* execute_command: rest_server.py:249-324                                 *)
(*                                                                         *)
(* A command is [kind |-> "str", val |-> <characters>],                    *)
(* [kind |-> "list", val |-> <<str, ...>>] for a list of str, or           *)
(* [kind |-> "mixed", val |-> <<str, ...>>] for a list with an element     *)
(* that is not a str, val holding str(x) of each element x.  A timeout is  *)
(* a positive number of seconds, or NoTimeout for Python's None.           *)

MAX_CONCURRENT_COMMANDS == 5
SHORT_TIMEOUT == 5
NoTimeout == 0

Str(s) == [kind |-> "str", val |-> s]
List(l) == [kind |-> "list", val |-> l]
Mixed(l) == [kind |-> "mixed", val |-> l]

\* isinstance(command, list), line 258
IsList(command) == command.kind \in {"list", "mixed"}

Letters == {"a","b","c","d","e","f","g","h","i","j","k","l","m","n","o","p","q","r","s","t",
            "u","v","w","x","y","z","A","B","C","D","E","F","G","H","I","J","K","L","M","N",
            "O","P","Q","R","S","T","U","V","W","X","Y","Z"}

\* shlex._find_unsafe = [^\w@%+=:,./-] (ASCII)
SafeChars == Letters \cup Digits \cup {"_", "@", "%", "+", "=", ":", ",", ".", "/", "-"}

RECURSIVE EscapeQuotes(_)
EscapeQuotes(s) ==
    IF s = <<>> THEN <<>>
    ELSE IF Head(s) = "'" THEN <<"'", "\"", "'", "\"", "'">> \o EscapeQuotes(Tail(s))
    ELSE <<Head(s)>> \o EscapeQuotes(Tail(s))

\* shlex.quote(s)
shlex_quote(s) ==
    IF s = <<>> THEN <<"'", "'">>
    ELSE IF Chars(s) \subseteq SafeChars THEN s
    ELSE <<"'">> \o EscapeQuotes(s) \o <<"'">>

RECURSIVE JoinQuoted(_)
JoinQuoted(l) ==
    IF l = <<>> THEN <<>>
    ELSE IF Len(l) = 1 THEN shlex_quote(l[1])
    ELSE shlex_quote(Head(l)) \o <<" ">> \o JoinQuoted(Tail(l))

\* lines 261, 264: the string handed to the policy check
CmdStr(command) ==
    IF IsList(command) THEN JoinQuoted(command.val) ELSE Strip(command.val)

\* lines 259, 265: empty list / empty string
IsEmptyCommand(command) ==
    IF IsList(command) THEN command.val = <<>> ELSE Strip(command.val) = <<>>

\* line 267: re.search(r'["`\' ]|\$[^(]', cmd_str)
NeedsShell(s) ==
    \E i \in 1..Len(s) :
        \/ s[i] \in {"\"", BQ, "'", " "}
        \/ s[i] = "$" /\ i < Len(s) /\ s[i + 1] # "("

\* variant of UseShell: every string command goes to the shell
UseShellEveryString(cfg, command) == ~IsList(command)

\* lines 262, 268: dispatch mode
UseShell(cfg, command) ==
    IF IsList(command) THEN FALSE
    ELSE NeedsShell(CmdStr(command)) \/ cfg.allow_all

\* is_command_allowed judges the command Denied (the first component of its
\* value is the same for every order in which the programs are visited)
JudgedDenied(cfg, command) == \E r \in is_command_allowed(cfg, CmdStr(command)) : ~r.allowed

\* variant of Blocked: the policy check stops nothing
BlockedNever(cfg, command, allow_command) == FALSE

\* lines 270-274: the call is stopped by the policy check
Blocked(cfg, command, allow_command) == ~allow_command /\ JudgedDenied(cfg, command)

\* line 286: the argument vector of create_subprocess_exec
ExecArgs(command) ==
    IF IsList(command) THEN [ok |-> TRUE, tokens |-> command.val]
    ELSE shlex_split(CmdStr(command))

\* lines 279-291: whether the child is created; /bin/sh always is, an exec
\* raises when the words cannot be split or name no executable, and when
\* an element of the list is not a str (TypeError)
SpawnSucceeds(cfg, command) ==
    IF UseShell(cfg, command) THEN TRUE
    ELSE /\ command.kind # "mixed"
         /\ ExecArgs(command).ok
         /\ ExecArgs(command).tokens # <<>>
         /\ which(ExecArgs(command).tokens[1]) # <<>>

\* /bin/sh -c text.  The shell is not part of the repository: the model
\* reads the texts made of simple commands, quoted words, the operators
\* ; & | && || and the redirections to /dev/null and between descriptors 1
\* and 2 (ShRead), and takes every outcome to be possible for any other
\* text (ShOutcomes).

\* the characters that stand for themselves in an unquoted word
ShPlain == Letters \cup Digits \cup {"-", ".", "/", ":", "_", ",", "+", "@", "%"}

ShBlank == {" ", "\t"}

\* the characters that end a word
ShBreak == ShBlank \cup {"\n", ";", "&", "|"}

\* the reserved words and the built-in commands of the shell
ShWords ==
    {<<"!">>, <<"{">>, <<"}">>, <<"c","a","s","e">>, <<"d","o">>, <<"d","o","n","e">>,
      <<"e","l","i","f">>, <<"e","l","s","e">>, <<"e","s","a","c">>, <<"f","i">>,
      <<"f","o","r">>, <<"i","f">>, <<"i","n">>, <<"t","h","e","n">>,
      <<"u","n","t","i","l">>, <<"w","h","i","l","e">>, <<".">>, <<":">>, <<"[">>,
      <<"a","l","i","a","s">>, <<"b","g">>, <<"b","r","e","a","k">>, <<"c","d">>,
      <<"c","h","d","i","r">>, <<"c","o","m","m","a","n","d">>,
      <<"c","o","n","t","i","n","u","e">>, <<"e","c","h","o">>, <<"e","v","a","l">>,
      <<"e","x","e","c">>, <<"e","x","i","t">>, <<"e","x","p","o","r","t">>,
      <<"f","a","l","s","e">>, <<"f","g">>, <<"g","e","t","o","p","t","s">>,
      <<"h","a","s","h">>, <<"j","o","b","s">>, <<"k","i","l","l">>,
      <<"l","o","c","a","l">>, <<"p","r","i","n","t","f">>, <<"p","w","d">>,
      <<"r","e","a","d">>, <<"r","e","a","d","o","n","l","y">>,
      <<"r","e","t","u","r","n">>, <<"s","e","t">>, <<"s","h","i","f","t">>,
      <<"t","e","s","t">>, <<"t","i","m","e","s">>, <<"t","r","a","p">>,
      <<"t","r","u","e">>, <<"t","y","p","e">>, <<"u","l","i","m","i","t">>,
      <<"u","m","a","s","k">>, <<"u","n","a","l","i","a","s">>,
      <<"u","n","s","e","t">>, <<"w","a","i","t">> }

\* the first place at or after i with a character of set, Len(s) + 1 if none
NextIn(s, i, set) ==
    IF \E j \in i..Len(s) : s[j] \in set
    THEN CHOOSE j \in i..Len(s) : s[j] \in set /\ \A k \in i..(j - 1) : s[k] \notin set
    ELSE Len(s) + 1

\* the places of s outside quotes (outside), and whether every character
\* between double quotes stands for itself (literal): none is $, ` or \
RECURSIVE ShQuoting(_, _, _, _, _)
ShQuoting(s, at, quote, outside, literal) ==
    LET i == NextIn(s, at, IF quote = "" THEN {"'", "\""} ELSE {quote})
        lit == literal /\ (quote = "\"" => \A k \in at..(i - 1) : s[k] \notin {"$", BQ, "\\"})
    IN  IF quote = "" THEN
            IF i > Len(s) THEN [outside |-> outside \cup (at..Len(s)), literal |-> literal]
            ELSE ShQuoting(s, i + 1, s[i], outside \cup (at..(i - 1)), literal)
        ELSE IF i > Len(s) THEN [outside |-> outside, literal |-> lit]
        ELSE ShQuoting(s, i + 1, "", outside, lit)

\* the redirection operator at i is one the model reads: it follows a blank,
\* or a descriptor 1 or 2 that follows a blank, and is n>/dev/null,
\* n>>/dev/null, n>&1, n>&2 or n>&-
ShRedirectRead(s, i) ==
    LET j == IF i < Len(s) /\ s[i + 1] = ">" THEN i + 2 ELSE i + 1
        k == NextIn(s, j, {s[n] : n \in 1..Len(s)} \ ShBlank)
    IN  /\ i > 1
        /\ \/ s[i - 1] \in ShBlank
           \/ s[i - 1] \in {"1", "2"} /\ i > 2 /\ s[i - 2] \in ShBlank
        /\ \/ /\ j = i + 1
              /\ j < Len(s)
              /\ s[j] = "&"
              /\ s[j + 1] \in {"1", "2", "-"}
              /\ j + 2 <= Len(s) => s[j + 2] \in ShBreak
           \/ /\ k + 8 <= Len(s)
              /\ SubSeq(s, k, k + 8) = <<"/","d","e","v","/","n","u","l","l">>
              /\ k + 9 <= Len(s) => s[k + 9] \in ShBreak

\* the characters that can mean something to the shell in a text it
\* reads: outside quotes, and in quotes
ShSpecial(quote) ==
    IF quote = "" THEN {"'", "\"", "&", "|", ";", ">", "\n"}
    ELSE {quote}

\* the first place at or after i with such a character, Len(s) + 1 if none
ShNext(s, i, quote) == NextIn(s, i, ShSpecial(quote))

\* A list is cut at the unquoted operators |, && and || into its commands,
\* each with the operator before it; from is where the command in hand begins
RECURSIVE ShCommands(_, _, _, _, _, _)
ShCommands(s, at, quote, op, from, acc) ==
    LET i == ShNext(s, at, quote) IN
    IF i > Len(s) THEN Append(acc, [op |-> op, text |-> SubSeq(s, from, Len(s))])
    ELSE IF quote # "" THEN ShCommands(s, i + 1, "", op, from, acc)
    ELSE IF s[i] \in {"'", "\""} THEN ShCommands(s, i + 1, s[i], op, from, acc)
    ELSE IF s[i] \in {"&", "|"} /\ i < Len(s) /\ s[i + 1] = s[i]
         THEN ShCommands(s, i + 2, "", IF s[i] = "&" THEN "&&" ELSE "||", i + 2,
                         Append(acc, [op |-> op, text |-> SubSeq(s, from, i - 1)]))
    ELSE IF s[i] = "|"
         THEN ShCommands(s, i + 1, "", "|", i + 1,
                         Append(acc, [op |-> op, text |-> SubSeq(s, from, i - 1)]))
    ELSE ShCommands(s, i + 1, "", op, from, acc)

\* a list the shell accepts: a command on every side of every operator
ShListOk(list) ==
    \A k \in 1..Len(ShCommands(list, 1, "", "", 1, <<>>)) :
        Strip(ShCommands(list, 1, "", "", 1, <<>>)[k].text) # <<>>

\* the list in hand ends in |, && or ||: the shell reads on across a newline
ShListOpen(cur) ==
    LET c == RStrip(cur) IN
    /\ c # <<>>
    /\ c[Len(c)] \in {"|", "&"}

\* what the character at i is to the shell, in a list that begins at from
ShToken(s, i, quote, from) ==
    IF quote # "" THEN "close"
    ELSE IF s[i] \in {"'", "\""} THEN "open"
    ELSE IF s[i] = "&" /\ i < Len(s) /\ s[i + 1] = "&" THEN "pair"
    ELSE IF s[i] = "&" /\ i > from /\ s[i - 1] = ">" THEN "plain"
    ELSE IF s[i] \in {"&", ";"} THEN "end"
    ELSE IF s[i] = "\n" /\ ~ShListOpen(SubSeq(s, from, i - 1)) THEN "newline"
    ELSE "plain"

\* the lines of the text, each the lists on it: text is the list and end
\* the control operator after it, `;` or `&`, or "\n" at the end of the line
\* and "open" at the end of a text that leaves a quote open (`&&` and the
\* `&` of `>&` are not control operators)
RECURSIVE ShLines(_, _, _, _, _, _)
ShLines(s, at, quote, from, line, acc) ==
    LET i == ShNext(s, at, quote)
        token == ShToken(s, i, quote, from)
    IN  IF i > Len(s)
        THEN Append(acc, Append(line, [text |-> SubSeq(s, from, Len(s)),
                                       end |-> IF quote = "" THEN "\n" ELSE "open"]))
        ELSE IF token = "pair" THEN ShLines(s, i + 2, quote, from, line, acc)
        ELSE IF token = "close" THEN ShLines(s, i + 1, "", from, line, acc)
        ELSE IF token = "open" THEN ShLines(s, i + 1, s[i], from, line, acc)
        ELSE IF token = "plain" THEN ShLines(s, i + 1, quote, from, line, acc)
        ELSE IF token = "end"
             THEN ShLines(s, i + 1, "", i + 1,
                          Append(line, [text |-> SubSeq(s, from, i - 1), end |-> s[i]]), acc)
        ELSE ShLines(s, i + 1, "", i + 1, <<>>,
                     Append(acc, Append(line, [text |-> SubSeq(s, from, i - 1), end |-> "\n"])))

\* the first words of the commands of the text
ShFirstWords(s) ==
    LET lines == ShLines(s, 1, "", 1, <<>>, <<>>) IN
    UNION {UNION {UNION {ProgramOfPart(c.text) :
                            c \in {ShCommands(lines[l][k].text, 1, "", "", 1, <<>>)[n] :
                                      n \in 1..Len(ShCommands(lines[l][k].text, 1, "", "", 1, <<>>))}} :
                     k \in 1..Len(lines[l])} :
              l \in 1..Len(lines)}

\* the text is one the model reads: outside quotes nothing but plain
\* characters, blanks, newlines and the operators ; & | >, the redirections
\* as ShRedirectRead has them, between double quotes no $, ` or \, and for
\* the first word of every command a word that is no reserved word, no
\* built-in command and holds no redirection
ShRead(s) ==
    LET q == ShQuoting(s, 1, "", {}, TRUE) IN
    /\ q.literal
    /\ \A i \in q.outside :
          /\ s[i] \in ShPlain \cup ShBreak \cup {">"}
          /\ (s[i] = ">" /\ ~(i > 1 /\ s[i - 1] = ">")) => ShRedirectRead(s, i)
    /\ \A word \in ShFirstWords(s) : word \notin ShWords /\ ">" \notin Chars(word)

\* a line the shell accepts: no quote left open and a command on every
\* side of every operator; only the end of the line may follow no command
ShLineOk(line) ==
    \A k \in 1..Len(line) :
        /\ line[k].end # "open"
        /\ \/ line[k].end = "\n" /\ Strip(line[k].text) = <<>>
           \/ ShListOk(line[k].text)

\* the shell reads a whole line before it runs any of it: a syntax error
\* leaves the lines before it run and nothing of the line or after it
ShRunLines(s) ==
    LET lines == ShLines(s, 1, "", 1, <<>>, <<>>) IN
    {l \in 1..Len(lines) : \A m \in 1..l : ShLineOk(lines[m])}

\* the programs /bin/sh -c s starts, for a text ShRead reads: the first
\* word of every command of the lines the shell runs (a command after &&
\* or || when the command before it ended accordingly)
ShPrograms(s) ==
    LET lines == ShLines(s, 1, "", 1, <<>>, <<>>) IN
    UNION {UNION {UNION {ProgramOfPart(c.text) :
                            c \in {ShCommands(lines[l][k].text, 1, "", "", 1, <<>>)[n] :
                                      n \in 1..Len(ShCommands(lines[l][k].text, 1, "", "", 1, <<>>))}} :
                     k \in 1..Len(lines[l])} :
              l \in ShRunLines(s)}

\* the lists the shell runs in the background: those ended by `&`
ShJobs(s) ==
    LET lines == ShLines(s, 1, "", 1, <<>>, <<>>) IN
    UNION {{lines[l][k].text : k \in {n \in 1..Len(lines[l]) : lines[l][n].end = "&"}} :
              l \in ShRunLines(s)}

\* the redirections of a command, left to right: whether its stdout (out)
\* and its stderr (err) are still the pipes of lines 282-283.  `n>file` and
\* `n>>file` take descriptor n (1 if not given) off the pipe, `n>&m` makes
\* it what descriptor m is, `n>&-` closes it
RECURSIVE Redirections(_, _, _, _, _)
Redirections(s, at, quote, out, err) ==
    LET i == ShNext(s, at, quote) IN
    IF i > Len(s) THEN [out |-> out, err |-> err]
    ELSE IF quote # "" THEN Redirections(s, i + 1, "", out, err)
    ELSE IF s[i] \in {"'", "\""} THEN Redirections(s, i + 1, s[i], out, err)
    ELSE IF s[i] # ">" THEN Redirections(s, i + 1, "", out, err)
    ELSE LET fd == IF i > 1 /\ s[i - 1] = "2" THEN 2 ELSE 1
             j == IF i < Len(s) /\ s[i + 1] = ">" THEN i + 2 ELSE i + 1
             dup == j < Len(s) /\ s[j] = "&"
             to == IF dup /\ s[j + 1] = "1" THEN out
                   ELSE IF dup /\ s[j + 1] = "2" THEN err
                   ELSE FALSE
         IN Redirections(s, IF dup THEN j + 2 ELSE j, "",
                         IF fd = 1 THEN to ELSE out, IF fd = 2 THEN to ELSE err)

\* the program of a command is found on the machine
ShFound(text) == \E prog \in ProgramOfPart(text) : which(prog) # <<>>

\* the command keeps a pipe of lines 282-283: stdout is the pipe unless
\* piped is true, stderr is, and the redirections leave one of the two
ShKeepsPipe(text, piped) ==
    \/ Redirections(text, 1, "", ~piped, TRUE).out
    \/ Redirections(text, 1, "", ~piped, TRUE).err

\* A background list with && or || runs in a shell of its own, left to
\* right from command k.  The first command runs, a command after | runs
\* when the one before it did, and a command that is not found fails.  The
\* shell of the list holds both pipes while it waits for a command that is
\* found; the last command, if it is not of a pipeline, is not waited for:
\* the shell of the list becomes its program
RECURSIVE ShRuns(_, _, _, _)
ShRuns(c, k, ran, status) ==
    IF k > Len(c) THEN FALSE
    ELSE LET runs == \/ c[k].op = ""
                     \/ c[k].op = "|" /\ ran
                     \/ c[k].op = "&&" /\ status
                     \/ c[k].op = "||" /\ ~status
         IN IF ~runs THEN ShRuns(c, k + 1, FALSE, status)
            ELSE IF k = Len(c) /\ c[k].op # "|"
                 THEN ShFound(c[k].text) /\ ShKeepsPipe(c[k].text, FALSE)
            ELSE ShFound(c[k].text) \/ ShRuns(c, k + 1, TRUE, FALSE)

\* a background list leaves a program behind that holds a pipe.  The
\* commands of a pipeline are started one by one, each with its own
\* redirections, stdout a pipe of lines 282-283 for the last of them only
HoldsPipe(job) ==
    LET c == ShCommands(job, 1, "", "", 1, <<>>) IN
    IF \E k \in 1..Len(c) : c[k].op \in {"&&", "||"} THEN ShRuns(c, 1, TRUE, TRUE)
    ELSE \E k \in 1..Len(c) : ShFound(c[k].text) /\ ShKeepsPipe(c[k].text, k < Len(c))

\* /bin/sh -c text that ShRead reads, with a list ended by the control
\* operator &: the shell starts the list in the background and does not wait for it; its program
\* inherits the pipes of lines 282-283 and communicate() returns only when
\* it has closed them
Backgrounds(command) ==
    /\ command.kind = "str"
    /\ \E job \in ShJobs(Strip(command.val)) : HoldsPipe(job)

\* a text that ShRead reads ends in the control operator &: the last list
\* runs in the background and the exit status of /bin/sh is 0; otherwise it is that of
\* the last command the shell waited for
EndsInBackground(command) ==
    LET lines == ShLines(Strip(command.val), 1, "", 1, <<>>, <<>>)
        final == lines[Len(lines)]
    IN  /\ command.kind = "str"
        /\ Len(lines) \in ShRunLines(Strip(command.val))
        /\ Len(final) > 1
        /\ final[Len(final) - 1].end = "&"
        /\ Strip(final[Len(final)].text) = <<>>

\* what /bin/sh -c text can leave behind when it terminates:
\*   "none"     nothing that holds a pipe of lines 282-283
\*   "last"     a program of the last list of the text, which the shell
\*              started in the background: the shell ends with status 0
\*   "earlier"  a program of an earlier list: the shell ends with the
\*              status of the last command it waited for
\* A text the model does not read can have any of them
NoBackground == {"none"}
ShOutcomes(command) ==
    IF command.kind # "str" THEN NoBackground
    ELSE IF ~ShRead(Strip(command.val)) THEN {"none", "last", "earlier"}
    ELSE IF ~Backgrounds(command) THEN NoBackground
    ELSE IF EndsInBackground(command) THEN {"last"}
    ELSE {"earlier"}

\* lines 257-276: what a call does before it asks for a permit
\*   entry    "empty", "blocked" or "run"
\*   denied   the policy check ran and said Denied
\*   shell    the command goes to /bin/sh -c (create_subprocess_shell)
\*   spawn_ok whether the spawn at lines 279-291 will succeed
\*   background  what /bin/sh can leave behind (ShOutcomes)
Entry(cfg, command, allow_command) ==
    [command |-> command, allow_command |-> allow_command,
     entry |-> IF IsEmptyCommand(command) THEN "empty"
               ELSE IF Blocked(cfg, command, allow_command) THEN "blocked"
               ELSE "run",
     denied |-> ~IsEmptyCommand(command) /\ ~allow_command /\ JudgedDenied(cfg, command),
     shell |-> ~IsEmptyCommand(command) /\ UseShell(cfg, command),
     background |-> IF ~IsEmptyCommand(command) /\ UseShell(cfg, command)
                    THEN ShOutcomes(Str(CmdStr(command))) ELSE NoBackground,
     spawn_ok |-> ~IsEmptyCommand(command) /\ SpawnSucceeds(cfg, command)]

(* The coroutines.  Calls are interchangeable, so the frames are a bag of  *)
(* records:                                                                *)
(*   pc       where the coroutine is suspended, or how it ended            *)
(*   proc     the child: none, running, exited (terminated while          *)
(*            communicate() still reads the pipes), killed (SIGKILL sent), *)
(*            reaped (terminated and its exit status collected)            *)
(*   permit   inside `async with _command_semaphore`                       *)
(*   tracked  proc is in _active_processes                                 *)
(*   timeout  the timeout argument                                         *)
(*   shell    the child is /bin/sh -c, the programs of the command are its *)
(*            descendants                                                  *)
(*   background  what /bin/sh can leave in the background, holding the     *)
(*            write ends of the stdout and stderr pipes (ShOutcomes)       *)
(*   spawn_ok whether the spawn will succeed                               *)
(*   denied   not allow_command and is_command_allowed said Denied         *)
(*   result   the returned dict or the raised exception                    *)
(*   t        the seconds named in a timeout error                         *)
(*   survivor at the end of the call, a descendant of the child is alive   *)
(*   owner    the request slot whose handler made the call, 0 for a call   *)
(*            that is followed by itself                                   *)

Frame(pc, proc, permit, tracked, timeout, spawn_ok, denied, result, t) ==
    [denied |-> denied, shell |-> FALSE, background |-> NoBackground, spawn_ok |-> spawn_ok,
     pc |-> pc, proc |-> proc, permit |-> permit, tracked |-> tracked, timeout |-> timeout,
     result |-> result, t |-> t, survivor |-> FALSE, owner |-> 0]

\* no call has just ended
NoFrame == Frame("none", "none", FALSE, FALSE, NoTimeout, TRUE, FALSE, "none", 0)

\* a child that outlives the call that spawned it
Orphan(proc) == Frame("orphan", proc, FALSE, FALSE, NoTimeout, TRUE, FALSE, "none", 0)

Frames == BagToSet(tasks)

\* the calls suspended in acquire() whose future in
\* _command_semaphore._waiters is not cancelled.  The future of a call at
\* "acquire" is pending; that of a call at "woken" has its result set (a
\* release handed it the permit) and the call has not resumed yet.  The
\* future of a call at "acquire_cancelled" is cancelled: it stays in
\* _waiters until the call resumes, and locked() and _wake_up_next() pass
\* over it
Waiters == {f \in Frames : f.pc \in {"acquire", "woken"}}

\* the waiters that _wake_up_next can wake: their future is not done
PendingWaiters(bag) == {f \in BagToSet(bag) : f.pc = "acquire"}

\* asyncio.Semaphore.locked(): _value == 0 or a waiter is not cancelled
Locked == sem_value = 0 \/ Waiters # {}

\* len(_active_processes), as handle_current_processes reports it (line 502)
ActiveCount == BagCardinality([f \in {g \in Frames : g.tracked} |-> tasks[f]])

\* _active_processes.add(proc), line 293
ActiveAdd(f) == [f EXCEPT !.tracked = TRUE]

\* _active_processes.discard(proc), line 303
ActiveDiscard(f) == [f EXCEPT !.tracked = FALSE]

\* variant of ReleasePermit: the permit is kept
KeepPermit(f) == f

\* leaving `async with _command_semaphore` (line 278): the permit is given back
ReleasePermit(f) == [f EXCEPT !.permit = FALSE]

\* asyncio.Semaphore._wake_up_next() on counter st.value and frames
\* st.tasks: the first waiter whose future is not done gets the permit
\* (_value -= 1; fut.set_result(True)); nothing happens without one.
\* tasks keeps no order of arrival: any waiter may be the first
WakeUpNext(st) ==
    IF PendingWaiters(st.tasks) = {} THEN {st}
    ELSE {[value |-> st.value - 1,
           tasks |-> (st.tasks (-) SetToBag({w})) (+) SetToBag({[w EXCEPT !.pc = "woken"]})] :
             w \in PendingWaiters(st.tasks)}

\* asyncio.Semaphore.release(): _value += 1, then _wake_up_next()
SemRelease(st) == WakeUpNext([st EXCEPT !.value = @ + 1])

\* the end of acquire() in a waiter that was woken: it leaves _waiters and,
\* if the counter is positive, wakes the next waiter
SemAcquired(st) == IF st.value > 0 THEN WakeUpNext(st) ELSE {st}

\* a frame that ends: `finally` discards the handle (line 303) and leaving
\* the `async with` block releases the permit; its locals are dead
Ended(f, pc, proc, result, t) ==
    ReleasePermit(ActiveDiscard(
        [f EXCEPT !.pc = pc, !.proc = proc, !.result = result, !.t = t,
                  !.timeout = NoTimeout, !.shell = FALSE,
                  !.background = NoBackground, !.spawn_ok = TRUE]))

\* lines 278-291 once a permit is available: the permit is taken and the
\* child forked, or the spawn raises and the permit is given back at once
Spawned(f) ==
    IF f.spawn_ok
    THEN [f EXCEPT !.pc = "spawning", !.proc = "running", !.permit = TRUE]
    ELSE Ended(f, "raised", "none", "error", 0)

\* variant of Enter: the permit is acquired before the command is looked at
EnterAcquireFirst(e, timeout, locked) ==
    LET f == [Frame("acquire", "none", FALSE, FALSE, timeout, e.spawn_ok, e.denied, "none", 0)
                 EXCEPT !.shell = e.shell, !.background = e.background]
    IN  IF locked THEN f
        ELSE IF e.entry = "empty" THEN Ended(f, "returned", "none", "empty", 0)
        ELSE IF e.entry = "blocked" THEN Ended(f, "returned", "none", "blocked", 0)
        ELSE Spawned(f)

\* the frame of a new call at its first suspension or its end (lines 257-291)
Enter(e, timeout, locked) ==
    LET f == [Frame("acquire", "none", FALSE, FALSE, timeout, e.spawn_ok, e.denied, "none", 0)
                 EXCEPT !.shell = e.shell, !.background = e.background]
    IN  IF e.entry = "empty" THEN Ended(f, "returned", "none", "empty", 0)
        ELSE IF e.entry = "blocked" THEN Ended(f, "returned", "none", "blocked", 0)
        ELSE IF locked THEN f
        ELSE Spawned(f)

\* line 293, then suspension in wait_for(proc.communicate()) at line 295
OnSpawnDone(f) == ActiveAdd([f EXCEPT !.pc = "communicate"])

\* lines 295, 302-324: communicate() returned; success = (returncode == 0)
OnCompleted(f, returncode) ==
    Ended(f, "returned", "reaped", IF returncode = 0 THEN "ok" ELSE "failed", 0)

\* lines 296-300: TimeoutError; proc.kill(), then suspension in proc.wait()
OnTimeout(f) == [f EXCEPT !.pc = "killwait", !.proc = "killed"]

\* lines 300-303: proc.wait() returned; {"success": False, "error": f"Timeout after {timeout}s"}
\* proc.kill() signals the child alone: a program started by /bin/sh is not
\* signalled, and is alive at the return when it does not hold the pipes
\* that proc.wait() waits to see closed
OnKillWaited(f, survivor) ==
    [Ended(f, "returned", "reaped", "timeout", f.timeout) EXCEPT !.survivor = survivor]

\* whether a descendant can be left behind by the kill
Survivors(f) == IF f.shell THEN BOOLEAN ELSE {FALSE}

\* Task.cancel() on a call suspended in acquire() with a pending future:
\* the future is cancelled at once and the call is scheduled to resume
\* (it will raise: its locals are dead)
FutureCancelled(f) ==
    [f EXCEPT !.pc = "acquire_cancelled", !.timeout = NoTimeout, !.shell = FALSE,
              !.background = NoBackground, !.spawn_ok = TRUE]

\* CancelledError delivered to the suspended coroutine.
\*   acquire_cancelled  Semaphore.acquire() removes the cancelled future
\*                from _waiters and raises, no permit was taken
\*   woken        Semaphore.acquire() raises and gives back the permit it
\*                had been handed
\*   spawning     asyncio closes the transport, which kills the child, and
\*                waits for it before re-raising
\*   otherwise    `finally` and `async with` run; nothing kills the child
OnCancel(f) ==
    CASE f.pc \in {"acquire_cancelled", "woken"} -> Ended(f, "raised", "none", "cancelled", 0)
      [] f.pc = "spawning" ->
            [f EXCEPT !.pc = "spawn_abort", !.timeout = NoTimeout, !.shell = FALSE,
                      !.background = NoBackground, !.proc = "killed"]
      [] OTHER -> Ended(f, "raised", f.proc, "cancelled", 0)

\* an exception other than TimeoutError out of line 295
OnWaitError(f) == Ended(f, "raised", f.proc, "error", 0)

Suspended == {"acquire", "woken", "spawning", "spawn_abort", "communicate", "killwait"}
HasEnded(f) == f.pc \in {"returned", "raised"}

-----------------------------------------------------------------------------
(* Spec: the execution engine under concurrent calls, with the default     *)
(* configuration                                                           *)

\* besides the calls that hold a permit, at most ExtraCalls calls waiting
\* for a permit or children that outlived their call exist at a time
ExtraCalls == 1

Timeouts == {NoTimeout, SHORT_TIMEOUT}

EngineCommands ==
    { Str(<<>>), Str(<<" ">>), List(<<>>),
      Str(<<"l","s">>), Str(<<"r","m">>), Str(<<"z","z">>),
      Str(<<"l","s",";","l","s">>), Str(<<"l","s"," ","-","l">>),
      List(<< <<"x","s","e","t">>, <<"-","q">> >>),
      \* sleep 9 >/dev/null 2>/dev/null;ls
      Str(<<"s","l","e","e","p"," ","9"," ",">","/","d","e","v","/","n","u","l","l"," ",
            "2",">","/","d","e","v","/","n","u","l","l",";","l","s">>) }

DefaultWhitelist == [kind |-> "names", names |-> DEFAULT_COMMAND_WHITELIST_REGEX]
EngineConfig == [allow_all |-> FALSE, whitelist |-> DefaultWhitelist]

\* the calls offered to the engine, each with what lines 257-276 make of it
EngineEntries ==
    {Entry(EngineConfig, command, allow_command) :
        command \in EngineCommands, allow_command \in BOOLEAN}

\* values of the variables a specification does not use
Pending == Result(FALSE, "pending", <<>>)
IdleRequest == [path |-> "", method |-> "GET", auth |-> <<>>, remote |-> ""]

(* JSON values of a request body: t is the Python type after json.loads,   *)
(* "absent" for a key the object does not have; n is the number of an int  *)
(* (1/0 for True/False), s the characters of a str, l the elements of a    *)
(* list: of a list of commands, each a command (Str, List, Mixed) or Other *)
(* for an element that is neither a str nor a list; of a command, each a   *)
(* str (Str) or an int (Num).                                              *)
JValue(t, n, s, l) == [s |-> s, n |-> n, l |-> l, t |-> t]
Absent == JValue("absent", 0, <<>>, <<>>)
JNull == JValue("null", 0, <<>>, <<>>)
JInt(n) == JValue("int", n, <<>>, <<>>)
JTrue == JValue("bool", 1, <<>>, <<>>)
JFloat == JValue("float", 0, <<>>, <<>>)
JStr(s) == JValue("str", 0, s, <<>>)
JList(l) == JValue("list", 0, <<>>, l)
Other == [kind |-> "other", val |-> <<>>]

\* the keys a payload is looked up with (CommandKey, line 247); "junk"
\* stands for any key no operation declares, "_cmd_name" is the key the
\* wrapper adds (line 414), "data" the parameter sig.bind binds (line 378)
PayloadKeys ==
    {"url", "args", "cmd", "cmds", "cmd_timeout", "timeout", "junk", "_cmd_name", "data"}
EmptyPayload == [k \in PayloadKeys |-> Absent]

\* the keys of the request bodies of SpecOp
ClientKeys == PayloadKeys \ {"_cmd_name", "data"}

\* at most MaxRequests requests are being served at a time
MaxRequests == 2
Slots == 1..MaxRequests

\* a request slot with no request in it
IdleHandler ==
    [op |-> "", status |-> 0, pc |-> "idle", payload |-> EmptyPayload, data |-> EmptyPayload,
     handler_ran |-> FALSE, plan |-> <<>>, results |-> <<>>, spawned |-> <<>>,
     success |-> FALSE, error |-> "none", current_processes |-> 0]

Init ==
    /\ ALLOW_ALL_USER_COMMANDS = EngineConfig.allow_all
    /\ COMPILED_WHITELIST_REGEX = EngineConfig.whitelist
    /\ REST_BEARER_TOKEN = None
    /\ tasks = EmptyBag
    /\ last = NoFrame
    /\ sem_value = MAX_CONCURRENT_COMMANDS
    /\ command_str = <<>>
    /\ decision = Pending
    /\ hash_order = Pending
    /\ request = IdleRequest
    /\ stage = "idle"
    /\ response = 0
    /\ handlers = <<>>
    /\ trigger = NotRunning

Frozen == UNCHANGED <<ALLOW_ALL_USER_COMMANDS, COMPILED_WHITELIST_REGEX, REST_BEARER_TOKEN,
                      command_str, decision, hash_order, request, stage, response, handlers, trigger>>

\* the bag once frame f has become g: a frame that ended leaves the bag,
\* and leaves its child behind if the child is still there
Replaced(f, g) ==
    IF ~HasEnded(g) THEN (tasks (-) SetToBag({f})) (+) SetToBag({g})
    ELSE IF g.proc \in {"running", "killed"}
         THEN (tasks (-) SetToBag({f})) (+) SetToBag({Orphan(g.proc)})
    ELSE tasks (-) SetToBag({f})

\* the number of waiting calls and of children that outlived their call
ExtraCount == BagCardinality([f \in {g \in Frames : ~g.permit} |-> tasks[f]])

\* the semaphore counter and the frames once frame f has become g.  A
\* woken waiter that resumes ends acquire() and goes on holding the permit
\* it was handed, or gives it back at once (its spawn raised); cancelled,
\* it gives the permit back; a frame that leaves `async with` releases
SemAfter(f, g) ==
    LET st == [value |-> sem_value, tasks |-> Replaced(f, g)] IN
    IF f.pc = "woken"
    THEN IF g.permit THEN SemAcquired(st)
         ELSE IF g.result = "cancelled" THEN SemRelease(st)
         ELSE UNION {SemRelease(a) : a \in SemAcquired(st)}
    ELSE IF f.permit /\ ~g.permit THEN SemRelease(st)
    ELSE {st}

\* frame f takes a step to g
Step(f, g) ==
    /\ last = NoFrame
    /\ (HasEnded(g) /\ g.proc \in {"running", "killed"}) => ExtraCount < ExtraCalls
    /\ \E st \in SemAfter(f, g) :
          /\ tasks' = st.tasks
          /\ sem_value' = st.value
    /\ last' = IF HasEnded(g) THEN g ELSE NoFrame
    /\ Frozen

\* execute_command(command, timeout=timeout, allow_command=allow_command)
\* is called and runs to its first suspension or to its end
Called(e, timeout) ==
    LET g == Enter(e, timeout, Locked) IN
    /\ last = NoFrame
    /\ g.pc = "acquire" => ExtraCount < ExtraCalls
    /\ tasks' = IF HasEnded(g) THEN tasks ELSE tasks (+) SetToBag({g})
    /\ last' = IF HasEnded(g) THEN g ELSE NoFrame
    /\ sem_value' = IF g.permit THEN sem_value - 1 ELSE sem_value
    /\ Frozen

Call == \E e \in EngineEntries, timeout \in Timeouts : Called(e, timeout)

\* a waiter that was handed a permit resumes and goes on to spawn
Wake ==
    \E f \in Waiters :
        /\ f.pc = "woken"
        /\ Step(f, Spawned(f))

\* create_subprocess_* returns the handle
SpawnDone == \E f \in Frames : f.pc = "spawning" /\ Step(f, OnSpawnDone(f))

\* a child that outlived its call terminates and is collected by the event
\* loop's child watcher
OrphanExit ==
    \E f \in Frames :
        /\ f.pc = "orphan"
        /\ last = NoFrame
        /\ tasks' = tasks (-) SetToBag({f})
        /\ UNCHANGED <<last, sem_value>>
        /\ Frozen

\* the child terminates and communicate() returns with the exit status
CommunicateDone ==
    \E f \in Frames, returncode \in {0, 1} :
        /\ f.pc = "communicate"
        /\ Step(f, OnCompleted(f, returncode))

\* wait_for gives up after `timeout` seconds
Timeout ==
    \E f \in Frames :
        /\ f.pc = "communicate" /\ f.timeout # NoTimeout
        /\ Step(f, OnTimeout(f))

\* the killed child terminates and proc.wait() returns
KillWaitDone ==
    \E f \in Frames :
        \E survivor \in Survivors(f) :
            /\ f.pc = "killwait"
            /\ Step(f, OnKillWaited(f, survivor))

\* the child killed by a cancelled spawn has terminated and been waited for
SpawnAbortDone ==
    \E f \in Frames :
        /\ f.pc = "spawn_abort"
        /\ Step(f, Ended(f, "raised", "reaped", "cancelled", 0))

\* the task running the call is cancelled.  A call waiting for a permit
\* has its future cancelled and resumes in a later callback of the event
\* loop (Cancelled); at every other suspension nothing shared changes
\* before the coroutine resumes with CancelledError
Cancel ==
    \E f \in Frames :
        /\ f.pc \in Suspended
        /\ Step(f, IF f.pc = "acquire" THEN FutureCancelled(f) ELSE OnCancel(f))

\* a cancelled waiter resumes: acquire() raises CancelledError
Cancelled == \E f \in Frames : f.pc = "acquire_cancelled" /\ Step(f, OnCancel(f))

\* communicate() raises
WaitError == \E f \in Frames : f.pc = "communicate" /\ Step(f, OnWaitError(f))

\* the caller of the call that has just ended resumes with its outcome
Resume ==
    /\ last # NoFrame
    /\ last' = NoFrame
    /\ UNCHANGED <<tasks, sem_value>>
    /\ Frozen

Next ==
    \/ Call
    \/ Wake
    \/ SpawnDone
    \/ OrphanExit
    \/ CommunicateDone
    \/ Timeout
    \/ KillWaitDone
    \/ SpawnAbortDone
    \/ Cancel
    \/ Cancelled
    \/ WaitError
    \/ Resume

Spec == Init /\ [][Next]_vars

-----------------------------------------------------------------------------
(* SpecPolicy: is_command_allowed on bounded command strings               *)

\* Command strings are concatenations of at most MaxPieces pieces
MaxPieces == 3

Pieces == { <<"l","s">>, <<"r","m">>, <<"z","z">>, <<"p","i","n","g">>,
            <<" ">>, <<";">>, <<"\"">> }

RECURSIVE PieceSeqs(_)
PieceSeqs(n) ==
    IF n = 0 THEN {<<>>}
    ELSE PieceSeqs(n - 1) \cup {p \o s : p \in Pieces, s \in PieceSeqs(n - 1)}

\* ls;rm ";"   and   ls;echo "a|b"
QuotedSeparatorCommands ==
    { <<"l","s",";","r","m"," ","\"",";","\"">>,
      <<"l","s",";","e","c","h","o"," ","\"","a","|","b","\"">> }

\* ls, a newline, rm (two lines of shell text)
NewlineCommands == { <<"l","s"," ","\n","r","m">> }

\* programs found through a symbolic link (Symlinks)
LinkedCommands == { <<"g","r","e","p">>, <<"t","r","e","e">> }

\* white space that str.strip() removes and shlex does not split at:
\* ls and a form feed; a form feed and ls;rm; ls, a form feed, rm
FormFeedCommands ==
    { <<"l","s","\f">>, <<"\f","l","s",";","r","m">>, <<"l","s","\f","r","m">> }

\* programs named by a path with . or .. in it, or with a trailing slash
DottedCommands ==
    { <<"/","b","i","n","/",".","/","l","s">>,
      <<"/","b","i","n","/",".",".","/","s","b","i","n","/","p","i","n","g">>,
      <<"/","u","s","r","/","b","i","n","/",".",".","/",".",".","/","b","i","n","/","r","m">>,
      <<"/","b","i","n","/","l","s","/">> }

PolicyCommands ==
    PieceSeqs(MaxPieces) \cup QuotedSeparatorCommands \cup NewlineCommands \cup LinkedCommands
        \cup FormFeedCommands \cup DottedCommands

InitPolicy ==
    /\ ALLOW_ALL_USER_COMMANDS \in BOOLEAN
    /\ COMPILED_WHITELIST_REGEX \in WhitelistConfigs
    /\ REST_BEARER_TOKEN = None
    /\ command_str \in PolicyCommands
    /\ decision = Pending
    /\ hash_order \in is_command_allowed(Config, command_str)
    /\ tasks = EmptyBag
    /\ last = NoFrame
    /\ sem_value = MAX_CONCURRENT_COMMANDS
    /\ request = IdleRequest
    /\ stage = "idle"
    /\ response = 0
    /\ handlers = <<>>
    /\ trigger = NotRunning

\* one call of is_command_allowed(command_str).  `programs` is a Python set
\* of str, iterated in the order of the hashes of the running interpreter
\* (seeded at random when it starts): within one interpreter every call
\* visits the programs in the same order
Decide ==
    /\ decision' = hash_order
    /\ UNCHANGED <<ALLOW_ALL_USER_COMMANDS, COMPILED_WHITELIST_REGEX, REST_BEARER_TOKEN,
                   tasks, last, sem_value, command_str, hash_order, request, stage, response,
                   handlers, trigger>>

\* the server is started again with the same environment: a new hash
\* seed, so any failing program can be the first one visited
Restart ==
    /\ hash_order' \in is_command_allowed(Config, command_str)
    /\ UNCHANGED <<ALLOW_ALL_USER_COMMANDS, COMPILED_WHITELIST_REGEX, REST_BEARER_TOKEN,
                   tasks, last, sem_value, command_str, decision, request, stage, response,
                   handlers, trigger>>

NextPolicy ==
    \/ Decide
    \/ Restart

SpecPolicy == InitPolicy /\ [][NextPolicy]_vars

-----------------------------------------------------------------------------
(* SpecHTTP: one request through the router, security_middleware and the   *)
(* handler: rest_server.py:556-632                                         *)
(*                                                                         *)
(* A request is [path, method, auth, remote]: auth is the value of         *)
(* request.headers.get("Authorization", ""), a sequence of characters;     *)
(* remote is request.remote, "" standing for None.                         *)

\* FunctionRegistry: the names given to register_function (lines 443-550)
FunctionRegistry ==
    {"launch_url", "refresh_browser", "is_display_on", "display_on", "display_off",
     "current_processes", "xset", "run_command", "run_commands"}

PROTECTED_COMMANDS == {"run_command", "run_commands", "xset"}

HTTP_GET_COMMANDS == {"is_display_on", "current_processes"}

\* UrlDispatcher.add_get(path, handler): allow_head defaults to True, the
\* handler is registered for GET and for HEAD
ADD_GET == {"GET", "HEAD"}

\* UrlDispatcher.add_post(path, handler)
ADD_POST == {"POST"}

\* lines 614-617: the methods a registered route is added with
RouteMethods(name) == IF name \in HTTP_GET_COMMANDS THEN ADD_GET ELSE ADD_POST

\* the handler the router resolves the request to (lines 600-630):
\* make_handler of a registered function, the /health lambda, or the
\* catch-all not_found
Resolve(req) ==
    IF req.path \in FunctionRegistry /\ req.method \in RouteMethods(req.path) THEN "make_handler"
    ELSE IF req.path = "health" /\ req.method \in ADD_GET THEN "health"
    ELSE "not_found"

\* line 612: only make_handler is given a cmd_name attribute
HasCmdName(handler) == handler = "make_handler"

\* f"Bearer {REST_BEARER_TOKEN}"
BearerHeader(token) == <<"B", "e", "a", "r", "e", "r", " ">> \o token

\* lines 571-577: the request passes the token check
TokenAccepted(token, auth) == token = None \/ auth = BearerHeader(token)

\* line 580: request.remote or "unknown"
RemoteIp(req) == IF req.remote = "" THEN "unknown" ELSE req.remote

Loopback == {"127.0.0.1", "::1", "localhost"}

\* variant of ProtectionRefuses: a configured token does not lift the
\* loopback restriction
ProtectionRefusesAnyToken(token, req) ==
    /\ req.path \in PROTECTED_COMMANDS
    /\ RemoteIp(req) \notin Loopback

\* variant of ProtectionRefuses: the caller's address is not looked at
ProtectionRefusesAnyAddress(token, req) ==
    /\ req.path \in PROTECTED_COMMANDS
    /\ token = None

\* lines 579-587: the request is refused by the protection check
ProtectionRefuses(token, req) ==
    /\ req.path \in PROTECTED_COMMANDS
    /\ RemoteIp(req) \notin Loopback
    /\ token = None

-----------------------------------------------------------------------------
(* The registered operations: register_function (rest_server.py:345-426)   *)
(* and the handlers (rest_server.py:443-550)                               *)

\* the characters beyond ASCII whose case folding is an ASCII letter: LATIN
\* CAPITAL LETTER I WITH DOT ABOVE, LATIN SMALL LETTER DOTLESS I, LATIN
\* SMALL LETTER LONG S and KELVIN SIGN
LONG_S == "U+017F"
FoldedLetters == {"U+0130", "U+0131", LONG_S, "U+212A"}

\* [A-Z] under re.IGNORECASE
LetterClass == Letters \cup FoldedLetters

\* [A-Z0-9] under re.IGNORECASE
Alnum == LetterClass \cup Digits

\* the characters that match a letter of "https" or "localhost" under
\* re.IGNORECASE, and the letter they match
LowerCase ==
    [c \in {"H", "T", "P", "S", "L", "O", "C", "A", LONG_S} |->
        CASE c = "H" -> "h" [] c = "T" -> "t" [] c = "P" -> "p" [] c \in {"S", LONG_S} -> "s"
          [] c = "L" -> "l" [] c = "O" -> "o" [] c = "C" -> "c" [] c = "A" -> "a"]

\* re.IGNORECASE match of a lower-case literal at position p of s
MatchesAt(s, p, literal) ==
    /\ p + Len(literal) - 1 <= Len(s)
    /\ \A k \in 1..Len(literal) :
          LET c == s[p + k - 1] IN
          (IF c \in DOMAIN LowerCase THEN LowerCase[c] ELSE c) = literal[k]

\* the positions after a run of lo..hi characters of `set` starting at p
RunEnds(s, p, lo, hi, set) ==
    {q \in (p + lo)..(p + hi) : q <= Len(s) + 1 /\ \A k \in p..(q - 1) : s[k] \in set}

\* the positions after a "." that follows one of the positions P
AfterDot(s, P) == {q + 1 : q \in {r \in P : r <= Len(s) /\ s[r] = "."}}

\* (https?://)?
SchemeEnds(s) ==
    {1} \cup (IF MatchesAt(s, 1, <<"h","t","t","p",":","/","/">>) THEN {8} ELSE {})
        \cup (IF MatchesAt(s, 1, <<"h","t","t","p","s",":","/","/">>) THEN {9} ELSE {})

\* [A-Z0-9](?:[A-Z0-9-]{0,61}[A-Z0-9])?
LabelEnds(s, p) ==
    {q \in RunEnds(s, p, 1, 63, Alnum \cup {"-"}) : s[p] \in Alnum /\ s[q - 1] \in Alnum}

\* (?:label\.)+ : the positions after one or more labels, each followed by "."
RECURSIVE LabelsDotEnds(_, _, _)
LabelsDotEnds(s, P, n) ==
    LET Q == AfterDot(s, UNION {LabelEnds(s, p) : p \in P})
    IN  IF n = 0 \/ Q = {} THEN {} ELSE Q \cup LabelsDotEnds(s, Q, n - 1)

\* (?:label\.)+[A-Z]{2,6}\.?
DomainEnds(s, p) ==
    LET T == UNION {RunEnds(s, d, 2, 6, LetterClass) : d \in LabelsDotEnds(s, {p}, Len(s))}
    IN  T \cup AfterDot(s, T)

\* \d{1,3}\.\d{1,3}\.\d{1,3}\.\d{1,3}
IPv4Ends(s, p) ==
    LET Octet(P) == UNION {RunEnds(s, q, 1, 3, DecimalClass) : q \in P}
    IN  Octet(AfterDot(s, Octet(AfterDot(s, Octet(AfterDot(s, Octet({p})))))))

HostEnds(s, p) ==
    DomainEnds(s, p)
        \cup (IF MatchesAt(s, p, <<"l","o","c","a","l","h","o","s","t">>) THEN {p + 9} ELSE {})
        \cup IPv4Ends(s, p)

\* (?::\d{1,5})?
PortEnds(s, p) ==
    {p} \cup (IF p <= Len(s) /\ s[p] = ":" THEN RunEnds(s, p + 1, 1, 5, DecimalClass) ELSE {})

\* (?:/?|[/?][^\s]*)?$
PathMatches(s, p) ==
    \/ p = Len(s) + 1
    \/ /\ p <= Len(s)
       /\ s[p] \in {"/", "?"}
       /\ \A k \in p..Len(s) : s[k] \notin Whitespace

\* lines 139-151: VALID_URL_REGEX.fullmatch(url.strip())
is_valid_url(url) ==
    LET s == Strip(url) IN
    \E a \in SchemeEnds(s) : \E h \in HostEnds(s, a) : \E q \in PortEnds(s, h) : PathMatches(s, q)

\* decorator arguments of the nine registrations (lines 443-533)
Required(op) ==
    CASE op = "launch_url" -> {"url"}
      [] op = "xset" -> {"args"}
      [] op = "run_command" -> {"cmd"}
      [] op = "run_commands" -> {"cmds"}
      [] OTHER -> {}

Optional(op) ==
    CASE op = "display_on" -> {"timeout"}
      [] op \in {"run_command", "run_commands"} -> {"cmd_timeout"}
      [] OTHER -> {}

\* the keys of the `validators` dict of the registration
Validated(op) ==
    CASE op = "launch_url" -> {"url"}
      [] op = "display_on" -> {"timeout"}
      [] op = "xset" -> {"args"}
      [] op \in {"run_command", "run_commands"} -> {"cmd_timeout"}
      [] OTHER -> {}

\* isinstance(x, int): bool is a subclass of int
IsInt(v) == v.t \in {"int", "bool"}

\* the validator of the key applied to a value: "pass", "fail", or "raise"
\* when the test itself raises (is_valid_url calls .strip() on its argument)
ValidatorTest(op, key, v) ==
    CASE op = "launch_url" ->
            IF v.t # "str" THEN "raise" ELSE IF is_valid_url(v.s) THEN "pass" ELSE "fail"
      [] op = "display_on" ->
            IF v.t = "null" \/ (IsInt(v) /\ v.n >= 0) THEN "pass" ELSE "fail"
      [] op = "xset" ->
            IF v.t = "str" /\ Strip(v.s) # <<>> THEN "pass" ELSE "fail"
      [] OTHER ->
            IF v.t = "null" \/ (IsInt(v) /\ v.n > 0) THEN "pass" ELSE "fail"

\* k in data
Has(data, k) == data[k].t # "absent"

\* lines 406-412: the check of the implicit timeout parameter raises
TimeoutRejected(data) ==
    /\ Has(data, "timeout")
    /\ data["timeout"].t # "null"
    /\ (~IsInt(data["timeout"]) \/ data["timeout"].n <= 0)

\* lines 371-412: the exception wrapper() raises before it calls the
\* function, "none" when it calls it
WrapperError(op, data) ==
    IF \E k \in Required(op) : ~Has(data, k) THEN "Missing required parameters"
    ELSE IF \E k \in PayloadKeys : Has(data, k) /\ k \notin Required(op) \cup Optional(op) \cup {"timeout"}
    THEN "Unknown parameters"
    ELSE IF \E k \in Validated(op) : Has(data, k) /\ ValidatorTest(op, k, data[k]) = "raise"
    THEN "exception"
    ELSE IF \E k \in Validated(op) : Has(data, k) /\ ValidatorTest(op, k, data[k]) = "fail"
    THEN "is invalid"
    ELSE IF TimeoutRejected(data) THEN "Timeout must be int > 0 or omitted"
    ELSE "none"

(* What a handler does with a payload that passed the wrapper.  A handler  *)
(* is a straight-line program around its execute_command calls, so it is   *)
(* given as a plan:                                                        *)
(*   ret    "none", or the error of a return before any call, or "ok" for  *)
(*          a successful return without a call, or "raise"                 *)
(*   steps  the execute_command calls in order, [kind |-> "call"], and for *)
(*          run_commands the entries it refuses itself, [kind |-> "invalid"] *)

CallStep(command, timeout, allow_command) ==
    [kind |-> "call", command |-> command, allow_command |-> allow_command, timeout |-> timeout]
InvalidStep == [kind |-> "invalid", command |-> Other, allow_command |-> FALSE, timeout |-> NoTimeout]
Plan(ret, steps) == [ret |-> ret, steps |-> steps]

DecimalDigits == <<"0", "1", "2", "3", "4", "5", "6", "7", "8", "9">>

\* str(n) for a natural number
RECURSIVE IntStr(_)
IntStr(n) ==
    IF n < 10 THEN <<DecimalDigits[n + 1]>>
    ELSE IntStr(n \div 10) \o <<DecimalDigits[(n % 10) + 1]>>

\* str(x) for an int or a bool
PyStr(v) ==
    IF v.t = "bool" THEN (IF v.n = 1 THEN <<"T","r","u","e">> ELSE <<"F","a","l","s","e">>)
    ELSE IntStr(v.n)

\* tok in s
Contains(s, tok) == \E i \in 1..(Len(s) - Len(tok) + 1) : SubSeq(s, i, i + Len(tok) - 1) = tok

\* line 135
DANGEROUS_SHELL_TOKENS ==
    { <<";">>, <<"&","&">>, <<"|","|">>, <<"|">>, <<"&">>, <<BQ>>, <<"$","(">>, <<"$","{">>,
      <<">">>, <<"<">>, <<"2",">">>, <<"&",">">>, <<"*","?">>, <<"[">> }

\* data.get(key) as a timeout argument: None for an absent key or null
TimeoutArg(v) == IF v.t \in {"absent", "null"} THEN NoTimeout ELSE v.n

\* an int as the element of a command list: val is str(n), as line 261
\* renders it
Num(n) == [kind |-> "int", val |-> IntStr(n)]

\* a JSON value as the `command` argument of execute_command: a str, a list
\* (of str or with an element that is not a str), or Other for a value that
\* is neither: execute_command raises on it (command.strip(), line 264)
AsCommand(v) ==
    IF v.t = "str" THEN Str(v.s)
    ELSE IF v.t # "list" THEN Other
    ELSE IF \A i \in 1..Len(v.l) : v.l[i].kind = "str"
         THEN List([i \in 1..Len(v.l) |-> v.l[i].val])
    ELSE Mixed([i \in 1..Len(v.l) |-> v.l[i].val])

Xset(words) == List(<< <<"x","s","e","t">> >> \o words)

\* lines 443-450
PlanLaunchUrl(data) ==
    LET url == data["url"].s
        full == IF StartsWith(url, <<"h","t","t","p",":","/","/">>)
                   \/ StartsWith(url, <<"h","t","t","p","s",":","/","/">>)
                THEN url ELSE <<"h","t","t","p",":","/","/">> \o url
    IN  Plan("none", << CallStep(Str(<<"l","u","a","k","i","t"," ","-","n"," ","'">> \o full
                                       \o <<"'"," ","&">>), NoTimeout, TRUE) >>)

\* lines 452-457
PlanRefreshBrowser ==
    Plan("none", << CallStep(List(<< <<"x","d","o","t","o","o","l">>, <<"k","e","y">>,
                                    <<"-","-","c","l","e","a","r","m","o","d","i","f","i","e","r","s">>,
                                    <<"c","t","r","l","+","r">> >>), SHORT_TIMEOUT, TRUE) >>)

\* lines 459-469
PlanIsDisplayOn == Plan("none", << CallStep(Xset(<< <<"-","q">> >>), SHORT_TIMEOUT, TRUE) >>)

\* lines 471-490
PlanDisplayOn(data) ==
    LET blank_timeout == data["timeout"]
        on == << CallStep(Xset(<< <<"d","p","m","s">>, <<"f","o","r","c","e">>, <<"o","n">> >>),
                          SHORT_TIMEOUT, TRUE) >>
        t == PyStr(blank_timeout)
    IN  IF blank_timeout.t \in {"absent", "null"} THEN Plan("none", on)
        ELSE IF blank_timeout.n = 0
             THEN Plan("none", on \o << CallStep(Xset(<< <<"s">>, <<"o","f","f">> >>), SHORT_TIMEOUT, TRUE),
                                       CallStep(Xset(<< <<"-","d","p","m","s">> >>), SHORT_TIMEOUT, TRUE) >>)
        ELSE IF blank_timeout.n > 0
             THEN Plan("none", on \o << CallStep(Xset(<< <<"s">>, t >>), SHORT_TIMEOUT, TRUE),
                                       CallStep(Xset(<< <<"d","p","m","s">>, t, t, t >>), SHORT_TIMEOUT, TRUE) >>)
        ELSE Plan("none", on)

\* a display_off that coalesces with a call already in flight
PlanDisplayOffCoalesced ==
    IF \E s \in Slots : handlers[s].op = "display_off" /\ handlers[s].pc = "await"
    THEN Plan("ok", <<>>)
    ELSE Plan("none", << CallStep(Xset(<< <<"d","p","m","s">>, <<"f","o","r","c","e">>, <<"o","f","f">> >>),
                                  SHORT_TIMEOUT, TRUE) >>)

\* lines 492-497
PlanDisplayOff ==
    Plan("none", << CallStep(Xset(<< <<"d","p","m","s">>, <<"f","o","r","c","e">>, <<"o","f","f">> >>),
                             SHORT_TIMEOUT, TRUE) >>)

\* variant of PlanXset: the args are not searched for shell tokens
PlanXsetUnchecked(data) ==
    IF ~shlex_split(data["args"].s).ok THEN Plan("raise", <<>>)
    ELSE Plan("none", << CallStep(Xset(shlex_split(data["args"].s).tokens), SHORT_TIMEOUT, TRUE) >>)

\* lines 512-522
PlanXset(data) ==
    LET args == data["args"].s IN
    IF \E tok \in DANGEROUS_SHELL_TOKENS : Contains(args, tok)
    THEN Plan("Forbidden shell metacharacters in xset args", <<>>)
    ELSE IF ~shlex_split(args).ok THEN Plan("raise", <<>>)
    ELSE Plan("none", << CallStep(Xset(shlex_split(args).tokens), SHORT_TIMEOUT, TRUE) >>)

\* lines 524-531
PlanRunCommand(data) ==
    Plan("none", << CallStep(AsCommand(data["cmd"]), TimeoutArg(data["cmd_timeout"]), FALSE) >>)

\* lines 533-550: an entry that is neither a str nor a list is refused by
\* the handler, every other entry is handed to execute_command
PlanRunCommands(data) ==
    LET raw_cmds == data["cmds"] IN
    IF raw_cmds.t # "list" THEN Plan("'cmds' must be a list", <<>>)
    ELSE Plan("none",
              [i \in 1..Len(raw_cmds.l) |->
                  IF raw_cmds.l[i].kind = "other" THEN InvalidStep
                  ELSE CallStep(raw_cmds.l[i], TimeoutArg(data["cmd_timeout"]), FALSE)])

HandlerPlan(op, data) ==
    CASE op = "launch_url" -> PlanLaunchUrl(data)
      [] op = "refresh_browser" -> PlanRefreshBrowser
      [] op = "is_display_on" -> PlanIsDisplayOn
      [] op = "display_on" -> PlanDisplayOn(data)
      [] op = "display_off" -> PlanDisplayOff
      [] op = "current_processes" -> Plan("ok", <<>>)
      [] op = "xset" -> PlanXset(data)
      [] op = "run_command" -> PlanRunCommand(data)
      [] op = "run_commands" -> PlanRunCommands(data)

-----------------------------------------------------------------------------
(* make_handler (rest_server.py:603-610): one coroutine per request.  It   *)
(* reads the body, runs the wrapper and the handler; the handler's         *)
(* execute_command calls are frames of the execution engine, in `tasks`    *)
(* with the slot as owner and stepped with the engine's own operators.  A  *)
(* slot of `handlers` is                                                   *)
(*   op, payload   the operation and the JSON value of the request         *)
(*   pc            idle; body (suspended in request.json(), line 604);     *)
(*                 handler (running, between two suspensions); await       *)
(*                 (suspended in execute_command); done (make_handler has  *)
(*                 built the response); failed (request.json() raised and  *)
(*                 the exception left make_handler)                        *)
(*   handler_ran   the wrapper called the registered function              *)
(*   plan          the steps the handler has still to take                 *)
(*   results       the dicts execute_command has returned so far           *)
(*   spawned       the arguments of each child created                     *)
(*   status, success, error   the response: HTTP status and the JSON body  *)
(*   current_processes        the count handle_current_processes reports   *)
(* The event loop runs one coroutine at a time: while a slot is at         *)
(* `handler` nothing else takes a step.                                    *)

NoReason == Result(TRUE, "", <<>>)

\* the dict execute_command returns, from the frame that ended
\*   kind    empty, blocked, ok, failed, timeout; invalid for the dict
\*           run_commands makes itself
\*   reason  for blocked, the (allowed, reason) of is_command_allowed with
\*           the program it names, as formatted into "Command blocked: ..."
\*   returncode  the exit status, -1 for a dict without the key
ResultDict(success, kind, returncode, t, reason) ==
    [kind |-> kind, reason |-> reason, t |-> t, returncode |-> returncode, success |-> success]

\* lines 259, 266, 274, 300: the dict of a call that returns without an
\* exit status
ErrorDict(f, reason) == ResultDict(FALSE, f.result, -1, f.t, reason)

\* lines 316-324: the dict of a call whose child exited with returncode
ExitDict(f, returncode) == ResultDict(f.result = "ok", f.result, returncode, 0, NoReason)

\* line 274: the reasons is_command_allowed can give for denying the command
BlockReasons(cfg, command) == {r \in is_command_allowed(cfg, CmdStr(command)) : ~r.allowed}

\* the values a request can carry under each key
UrlValues ==
    { JStr(<<"a",".","i","o">>), JStr(<<"h","t","t","p",":","/","/","a",".","i","o","/","x">>),
      JStr(<<"a"," ","b">>),
      \* a.io/';ls;'
      JStr(<<"a",".","i","o","/","'",";","l","s",";","'">>),
      \* 1.1.1.3 with ARABIC-INDIC DIGIT THREE for the last digit
      JStr(<<"1",".","1",".","1",".","U+0663">>),
      JInt(5) }
ArgsValues == { JStr(<<"-","q">>), JStr(<<" ">>), JStr(<<"q",";">>), JStr(<<"s"," ","'">>), JInt(5) }

\* ls, rm, ls;ls, ls -l, ls and -l with a tab between them, "ls" in double
\* quotes, ls `ls`, `ls`, $x, $(ls), the lists ["ls", "-l"] and ["ls", 5],
\* and the number 5
CmdValues ==
    { JStr(<<"l","s">>), JStr(<<"r","m">>), JStr(<<"l","s",";","l","s">>),
      JStr(<<"l","s"," ","-","l">>),
      JStr(<<"l","s","\t","-","l">>),
      JStr(<<"\"","l","s","\"">>),
      JStr(<<"l","s"," ",BQ,"l","s",BQ>>),
      JStr(<<BQ,"l","s",BQ>>),
      JStr(<<"$","x">>),
      JStr(<<"$","(","l","s",")">>),
      JList(<<Str(<<"l","s">>), Str(<<"-","l">>)>>),
      JList(<<Str(<<"l","s">>), Num(5)>>),
      JInt(5) }
CmdsValues ==
    { JList(<<Str(<<"l","s">>), Str(<<"r","m">>)>>),
      JList(<<Other, List(<< <<"l","s">> >>)>>),
      JList(<<Mixed(<< <<"l","s">>, <<"5">> >>), Str(<<"l","s">>)>>),
      JList(<<Str(<<"l","s">>), Str(<<"l","s",";","l","s">>)>>),
      JList(<<Str(<<"l","s",";","l","s">>), Str(<<"l","s">>)>>),
      JStr(<<"l","s">>) }
CmdTimeoutValues == { JNull, JInt(0), JInt(5), JStr(<<"5">>) }
TimeoutValues == { JNull, JInt(-1), JInt(0), JInt(5), JTrue, JFloat, JStr(<<"5">>) }
JunkValues == { JInt(1) }

ValuesOf(k) ==
    CASE k = "url" -> UrlValues
      [] k = "args" -> ArgsValues
      [] k = "cmd" -> CmdValues
      [] k = "cmds" -> CmdsValues
      [] k = "cmd_timeout" -> CmdTimeoutValues
      [] k = "timeout" -> TimeoutValues
      [] k = "junk" -> JunkValues

\* a request body has at most MaxKeys keys
MaxKeys == 2

Payloads ==
    UNION { {[k \in PayloadKeys |-> IF k \in K THEN v[k] ELSE Absent] :
                v \in {w \in [K -> UNION {ValuesOf(k) : k \in K}] : \A k \in K : w[k] \in ValuesOf(k)}}
          : K \in {L \in SUBSET ClientKeys : Cardinality(L) <= MaxKeys} }

\* the configurations of SpecOp and SpecServe: the default whitelist, with
\* and without the override
ServerConfig(allow_all) == [allow_all |-> allow_all, whitelist |-> DefaultWhitelist]

\* the commands a payload can name, each with what lines 257-276 make of it
\* under either configuration, and the reasons it can be blocked with
UserCommands ==
    {AsCommand(v) : v \in CmdValues}
        \cup UNION {{v.l[i] : i \in 1..Len(v.l)} : v \in CmdsValues}
Judged ==
    [allow_all \in BOOLEAN |->
        [c \in UserCommands \ {Other} |->
            [entry |-> Entry(ServerConfig(allow_all), c, FALSE),
             reasons |-> BlockReasons(ServerConfig(allow_all), c)]]]

EntryOf(step) ==
    IF step.allow_command THEN Entry(Config, step.command, TRUE)
    ELSE Judged[ALLOW_ALL_USER_COMMANDS][step.command].entry

\* the execute_command call in flight of the handler in slot s
FrameOf(s) ==
    IF \E f \in Frames : f.owner = s THEN CHOOSE f \in Frames : f.owner = s ELSE NoFrame

\* no handler is running: every coroutine is suspended or has ended
Quiet == \A s \in Slots : handlers[s].pc # "handler"

FrozenOp == UNCHANGED <<ALLOW_ALL_USER_COMMANDS, COMPILED_WHITELIST_REGEX, REST_BEARER_TOKEN,
                        last, command_str, decision, hash_order, request, stage, response, trigger>>

\* the slot once make_handler has built its response
Done(h, status, success, error) ==
    [h EXCEPT !.pc = "done", !.plan = <<>>,
              !.status = status, !.success = success, !.error = error]

\* the slot once an exception of request.json() has left make_handler:
\* line 604 stands before the try of line 605, and aiohttp answers
Failed(h, status, error) == [h EXCEPT !.pc = "failed", !.status = status, !.error = error]

\* fullname (line 366), as characters
OperationName(op) ==
    CASE op = "launch_url" -> <<"l","a","u","n","c","h","_","u","r","l">>
      [] op = "refresh_browser" -> <<"r","e","f","r","e","s","h","_","b","r","o","w","s","e","r">>
      [] op = "is_display_on" -> <<"i","s","_","d","i","s","p","l","a","y","_","o","n">>
      [] op = "display_on" -> <<"d","i","s","p","l","a","y","_","o","n">>
      [] op = "display_off" -> <<"d","i","s","p","l","a","y","_","o","f","f">>
      [] op = "current_processes" -> <<"c","u","r","r","e","n","t","_","p","r","o","c","e","s","s","e","s">>
      [] op = "xset" -> <<"x","s","e","t">>
      [] op = "run_command" -> <<"r","u","n","_","c","o","m","m","a","n","d">>
      [] op = "run_commands" -> <<"r","u","n","_","c","o","m","m","a","n","d","s">>

\* line 414: the wrapper writes the name into the dict it was given
Stamped(op, data) == [data EXCEPT !["_cmd_name"] = JStr(OperationName(op))]

\* lines 371-418 and the handler up to its first execute_command call: the
\* wrapper is called with the dict h.data; it raises, or stamps the dict
\* and calls the handler, which returns at once, raises, or goes on to its
\* calls
Wrapped(h, active) ==
    LET plan == HandlerPlan(h.op, h.data)
        g == [h EXCEPT !.handler_ran = TRUE, !.data = Stamped(h.op, h.data)]
    IN  IF WrapperError(h.op, h.data) # "none" THEN Done(h, 500, FALSE, WrapperError(h.op, h.data))
        ELSE IF plan.ret = "raise" THEN Done(g, 500, FALSE, "exception")
        ELSE IF plan.ret = "ok" THEN Done([g EXCEPT !.current_processes = active], 200, TRUE, "none")
        ELSE IF plan.ret # "none" THEN Done(g, 200, FALSE, plan.ret)
        ELSE [g EXCEPT !.pc = "handler", !.plan = plan.steps]

\* lines 374-380: a JSON value that is not an object is no dict, and
\* sig.bind binds it to the one parameter of the function, `data`
Bound(v) == [EmptyPayload EXCEPT !["data"] = v]

\* the bodies that are JSON values but not objects
NonObjects == { JInt(1) }

\* the exceptions of request.json() and the status aiohttp answers them
\* with: a body that is not JSON, a body above client_max_size
BodyErrors ==
    { [status |-> 500, error |-> "JSONDecodeError"],
      [status |-> 413, error |-> "HTTPRequestEntityTooLarge"] }

\* lines 604-606: make_handler calls the wrapper with the JSON value of
\* the request, {} for a request without a body
Invoked(op, payload, active) ==
    Wrapped([IdleHandler EXCEPT !.op = op, !.payload = payload, !.data = payload], active)

\* the caller of the wrapper passes it the same dict once more
Resubmitted(h, active) ==
    Wrapped([IdleHandler EXCEPT !.op = h.op, !.payload = h.payload, !.data = h.data], active)

\* the handler has the dict of a call and goes on
Resumed(h, result) ==
    [h EXCEPT !.pc = "handler", !.plan = Tail(h.plan), !.results = Append(h.results, result)]

\* the arguments a child is created with record what it starts: an
\* argument vector starts its first word, a str is run by /bin/sh -c
ShellRead(args) == args.kind = "str" => ShRead(args.val)
Started(args) == IF args.kind = "str" THEN ShPrograms(args.val) ELSE {args.val[1]}

\* lines 279-291: what is handed to create_subprocess_shell (a str) or to
\* create_subprocess_exec (the argument vector)
SpawnArgs(cfg, command) ==
    IF UseShell(cfg, command) THEN Str(CmdStr(command)) ELSE List(ExecArgs(command).tokens)

\* lines 257-291: the frame of the call a step makes, at its first
\* suspension or at its end.  The call waits in acquire() when the
\* semaphore is locked; otherwise it takes a permit and is suspended in
\* create_subprocess_*, or the spawn raises
CallOf(s, step) == [Enter(EntryOf(step), step.timeout, Locked) EXCEPT !.owner = s]

\* the slot once its call has taken a permit and gone on to line 279: the
\* child is being created with the arguments of the call, or the spawn has
\* raised and make_handler answers 500 (lines 608-610)
Stepped(h, g) ==
    IF g.pc = "raised" THEN Done(h, 500, FALSE, "exception")
    ELSE [h EXCEPT !.pc = "await",
                   !.spawned = Append(h.spawned, SpawnArgs(Config, Head(h.plan).command))]

\* the reasons the next step can be blocked with
StepReasons(h) ==
    LET step == Head(h.plan) IN
    IF step.kind = "call" /\ step.command # Other /\ ~step.allow_command
           /\ Judged[ALLOW_ALL_USER_COMMANDS][step.command].entry.entry = "blocked"
    THEN Judged[ALLOW_ALL_USER_COMMANDS][step.command].reasons
    ELSE {NoReason}

\* the body a handler returns once its calls are made, answered with
\* status 200 (line 607)
\*   is_display_on (lines 464-469) replaces the error of a failed query
\*   every other handler reports success when all of its calls succeeded
Returned(h) ==
    LET ok == \A i \in 1..Len(h.results) : h.results[i].success IN
    IF h.op = "is_display_on" /\ ~ok THEN Done(h, 200, FALSE, "Failed to query display state")
    ELSE Done(h, 200, ok, "none")

\* slot s goes from its current value to h
Becomes(s, h) == handlers' = [handlers EXCEPT ![s] = h]

\* a call that has gone to frame g without suspension joins the frames
Begun(g) ==
    /\ tasks' = IF HasEnded(g) THEN tasks ELSE tasks (+) SetToBag({g})
    /\ sem_value' = IF g.permit THEN sem_value - 1 ELSE sem_value

\* frame f resumes and goes to g: the frames and the semaphore
Moved(f, g) ==
    \E st \in SemAfter(f, g) :
        /\ tasks' = st.tasks
        /\ sem_value' = st.value

\* line 603: make_handler is called for a request to operation op.  With a
\* body it is suspended in request.json(); without one the payload is {}
\* and the wrapper is called at once
Invoke(s, op, can_read_body) ==
    /\ handlers[s].pc = "idle"
    /\ Quiet
    /\ Becomes(s, IF can_read_body THEN [IdleHandler EXCEPT !.op = op, !.pc = "body"]
                  ELSE Invoked(op, EmptyPayload, ActiveCount))
    /\ UNCHANGED <<tasks, sem_value>>
    /\ FrozenOp

\* line 604: request.json() returns the JSON value of the body, one of
\* payloads or a value that is not an object, and the wrapper is called;
\* or it raises
BodyRead(s, payloads) ==
    /\ handlers[s].pc = "body"
    /\ Quiet
    /\ \/ \E payload \in payloads \cup {Bound(v) : v \in NonObjects} :
             Becomes(s, Invoked(handlers[s].op, payload, ActiveCount))
       \/ \E e \in BodyErrors : Becomes(s, Failed(handlers[s], e.status, e.error))
    /\ UNCHANGED <<tasks, sem_value>>
    /\ FrozenOp

\* the handler takes its next step: an entry run_commands refuses itself,
\* or a call of execute_command up to its first suspension or its end
\* (lines 257-291); a command that is neither a str nor a list raises at
\* line 264
HandlerStep(s) ==
    LET h == handlers[s]
        step == Head(h.plan)
        g == CallOf(s, step)
    IN  /\ h.pc = "handler"
        /\ h.plan # <<>>
        /\ IF step.kind = "invalid"
           THEN /\ Becomes(s, Resumed(h, ResultDict(FALSE, "invalid", -1, 0, NoReason)))
                /\ UNCHANGED <<tasks, sem_value>>
           ELSE IF step.command = Other
           THEN /\ Becomes(s, Done(h, 500, FALSE, "exception"))
                /\ UNCHANGED <<tasks, sem_value>>
           ELSE IF g.pc = "returned"
           THEN /\ \E reason \in StepReasons(h) :
                      Becomes(s, Resumed(h, ErrorDict(g, IF g.result = "blocked" THEN reason
                                                         ELSE NoReason)))
                /\ UNCHANGED <<tasks, sem_value>>
           ELSE IF g.pc = "acquire"
           THEN /\ Becomes(s, [h EXCEPT !.pc = "await"])
                /\ Begun(g)
           ELSE /\ Becomes(s, Stepped(h, g))
                /\ Begun(g)
        /\ FrozenOp

\* the call of slot s, handed a permit by a release, resumes in acquire()
\* and goes on to spawn (lines 278-291)
Woken(s) ==
    LET f == FrameOf(s) IN
    /\ handlers[s].pc = "await"
    /\ f.pc = "woken"
    /\ Quiet
    /\ Moved(f, Spawned(f))
    /\ Becomes(s, Stepped(handlers[s], Spawned(f)))
    /\ FrozenOp

\* create_subprocess_* returns the handle, which is added to
\* _active_processes (line 293); the call is suspended in communicate()
ChildSpawned(s) ==
    LET f == FrameOf(s) IN
    /\ handlers[s].pc = "await"
    /\ f.pc = "spawning"
    /\ Quiet
    /\ Moved(f, OnSpawnDone(f))
    /\ UNCHANGED handlers
    /\ FrozenOp

\* the child terminates and communicate() returns with the exit status
ChildExited(s) ==
    LET f == FrameOf(s) IN
    /\ handlers[s].pc = "await"
    /\ f.pc = "communicate"
    /\ Quiet
    /\ \E returncode \in {0, 1} :
          /\ Moved(f, OnCompleted(f, returncode))
          /\ Becomes(s, Resumed(handlers[s], ExitDict(OnCompleted(f, returncode), returncode)))
    /\ FrozenOp

\* wait_for gives up after `timeout` seconds
ChildTimedOut(s) ==
    LET f == FrameOf(s) IN
    /\ handlers[s].pc = "await"
    /\ f.pc = "communicate"
    /\ f.timeout # NoTimeout
    /\ Quiet
    /\ Moved(f, OnTimeout(f))
    /\ UNCHANGED handlers
    /\ FrozenOp

\* the killed child terminates and proc.wait() returns
ChildReaped(s) ==
    LET f == FrameOf(s) IN
    /\ handlers[s].pc = "await"
    /\ f.pc = "killwait"
    /\ Quiet
    /\ \E survivor \in Survivors(f) :
          /\ Moved(f, OnKillWaited(f, survivor))
          /\ Becomes(s, Resumed(handlers[s], ErrorDict(OnKillWaited(f, survivor), NoReason)))
    /\ FrozenOp

\* the dict of a call that has been answered is passed to the wrapper again
Resubmit(s) ==
    /\ handlers[s].pc = "done"
    /\ Quiet
    /\ Becomes(s, Resubmitted(handlers[s], ActiveCount))
    /\ UNCHANGED <<tasks, sem_value>>
    /\ FrozenOp

\* the handler returns and make_handler builds the response (line 607)
Return(s) ==
    /\ handlers[s].pc = "handler"
    /\ handlers[s].plan = <<>>
    /\ Becomes(s, Returned(handlers[s]))
    /\ UNCHANGED <<tasks, sem_value>>
    /\ FrozenOp

\* the response is sent
Reply(s) ==
    /\ handlers[s].pc \in {"done", "failed"}
    /\ Quiet
    /\ Becomes(s, IdleHandler)
    /\ UNCHANGED <<tasks, sem_value>>
    /\ FrozenOp

(* The requests that are not followed.  Their handlers call                *)
(* execute_command as well: each such call is a frame without owner, the   *)
(* call of a run_command request for ls without cmd_timeout, whose child   *)
(* exits.  At most MaxOthers of them are in flight, enough to hold every   *)
(* permit, and they are followed when they take a permit at once: the      *)
(* calls that wait in acquire() are those of the slots.                    *)

MaxOthers == 5

OtherStep == CallStep(Str(<<"l","s">>), NoTimeout, FALSE)

OtherFrames == {f \in Frames : f.owner = 0}

OtherCount == BagCardinality([f \in OtherFrames |-> tasks[f]])

\* another request calls execute_command and takes a permit
OtherCall ==
    /\ Quiet
    /\ OtherCount < MaxOthers
    /\ ~Locked
    /\ Begun(Enter(EntryOf(OtherStep), OtherStep.timeout, Locked))
    /\ UNCHANGED handlers
    /\ FrozenOp

\* create_subprocess_* returns the handle to a call of another request
OtherSpawned ==
    /\ Quiet
    /\ \E f \in OtherFrames : f.pc = "spawning" /\ Moved(f, OnSpawnDone(f))
    /\ UNCHANGED handlers
    /\ FrozenOp

\* the child of a call of another request terminates
OtherExited ==
    /\ Quiet
    /\ \E f \in OtherFrames : f.pc = "communicate" /\ Moved(f, OnCompleted(f, 0))
    /\ UNCHANGED handlers
    /\ FrozenOp

Operations == FunctionRegistry

InitOp ==
    /\ ALLOW_ALL_USER_COMMANDS \in BOOLEAN
    /\ COMPILED_WHITELIST_REGEX = DefaultWhitelist
    /\ REST_BEARER_TOKEN = None
    /\ tasks = EmptyBag
    /\ last = NoFrame
    /\ sem_value = MAX_CONCURRENT_COMMANDS
    /\ command_str = <<>>
    /\ decision = Pending
    /\ hash_order = Pending
    /\ request = IdleRequest
    /\ stage = "idle"
    /\ response = 0
    /\ handlers = [i \in Slots |-> IdleHandler]
    /\ trigger = NotRunning

(* SpecOp: one request followed at a time, with every payload of Payloads  *)

\* a request arrives when the slot is free
Arrive(s) == \E op \in Operations, can_read_body \in BOOLEAN : Invoke(s, op, can_read_body)

NextOp ==
    \/ Arrive(1)
    \/ BodyRead(1, Payloads)
    \/ Resubmit(1)
    \/ HandlerStep(1)
    \/ Woken(1)
    \/ ChildSpawned(1)
    \/ ChildExited(1)
    \/ ChildTimedOut(1)
    \/ ChildReaped(1)
    \/ Return(1)
    \/ Reply(1)
    \/ OtherCall
    \/ OtherSpawned
    \/ OtherExited

SpecOp == InitOp /\ [][NextOp]_vars

(* SpecServe: up to MaxRequests requests followed concurrently, each with  *)
(* the parameters its operation requires and nothing else                  *)

ServePayloads(op) ==
    {[k \in PayloadKeys |->
        CASE k \notin Required(op) -> Absent
          [] k = "url" -> JStr(<<"a",".","i","o">>)
          [] k = "args" -> JStr(<<"-","q">>)
          [] k = "cmd" -> JStr(<<"l","s">>)
          [] k = "cmds" -> JList(<<Str(<<"l","s">>), Str(<<"r","m">>)>>)]}

NextServe ==
    \/ \E s \in Slots : Arrive(s)
    \/ \E s \in Slots : BodyRead(s, ServePayloads(handlers[s].op))
    \/ \E s \in Slots : HandlerStep(s)
    \/ \E s \in Slots : Woken(s)
    \/ \E s \in Slots : ChildSpawned(s)
    \/ \E s \in Slots : ChildExited(s)
    \/ \E s \in Slots : ChildTimedOut(s)
    \/ \E s \in Slots : ChildReaped(s)
    \/ \E s \in Slots : Return(s)
    \/ \E s \in Slots : Reply(s)
    \/ OtherCall
    \/ OtherSpawned
    \/ OtherExited

SpecServe == InitOp /\ [][NextServe]_vars

-----------------------------------------------------------------------------
(* SpecHTTP: requests through the router, security_middleware and          *)
(* make_handler.  `request`, `stage` and `response` follow one request;    *)
(* its handler runs in slot 1.  security_middleware does not suspend       *)
(* before line 588; from there the handler is awaited and the event loop   *)
(* serves other requests, whose calls of execute_command are frames        *)
(* without owner.                                                          *)

Tokens == {None, <<"t", "k">>}

Paths == FunctionRegistry \cup {"health", "nope"}

AuthHeaders ==
    { <<>>, <<"t", "k">>, BearerHeader(<<"t", "k">>), BearerHeader(<<"t", "x">>),
      BearerHeader(<<"t", "k", "k">>), BearerHeader(<<"t">>), BearerHeader(<<>>),
      <<"b", "e", "a", "r", "e", "r", " ", "t", "k">>,
      <<"B", "e", "a", "r", "e", "r", " ", " ", "t", "k">> }

Remotes == {"127.0.0.1", "::1", "localhost", "192.168.1.20", ""}

Methods == {"GET", "HEAD", "POST"}

Requests == [path : Paths, method : Methods, auth : AuthHeaders, remote : Remotes]

\* line 604: the JSON objects request.json() can return for a request to
\* the operation
BodyPayloads(op) == ServePayloads(op) \cup {EmptyPayload}

InitHTTP ==
    /\ ALLOW_ALL_USER_COMMANDS = FALSE
    /\ COMPILED_WHITELIST_REGEX = DefaultWhitelist
    /\ REST_BEARER_TOKEN \in Tokens
    /\ tasks = EmptyBag
    /\ last = NoFrame
    /\ sem_value = MAX_CONCURRENT_COMMANDS
    /\ command_str = <<>>
    /\ decision = Pending
    /\ hash_order = Pending
    /\ request = IdleRequest
    /\ stage = "idle"
    /\ response = 0
    /\ handlers = [i \in Slots |-> IdleHandler]
    /\ trigger = NotRunning

FrozenHTTP == UNCHANGED <<ALLOW_ALL_USER_COMMANDS, COMPILED_WHITELIST_REGEX, REST_BEARER_TOKEN,
                          tasks, last, sem_value, command_str, decision, hash_order, handlers, trigger>>

\* the followed request is between its arrival and line 588: the event
\* loop runs security_middleware and nothing else
InMiddleware == stage \in {"Unauthenticated", "Authenticated", "Authorized"}

\* a request arrives and security_middleware is entered
Receive ==
    /\ stage = "idle"
    /\ Quiet
    /\ request' \in Requests
    /\ stage' = "Unauthenticated"
    /\ response' = 0
    /\ FrozenHTTP

\* lines 571-577
TokenCheck ==
    /\ stage = "Unauthenticated"
    /\ IF TokenAccepted(REST_BEARER_TOKEN, request.auth)
       THEN stage' = "Authenticated" /\ response' = response
       ELSE stage' = "RejectedAuthError" /\ response' = 401
    /\ UNCHANGED request
    /\ FrozenHTTP

\* lines 579-587: getattr(handler, "cmd_name") raises AttributeError for a
\* handler without the attribute, which aiohttp answers with 500
ProtectionCheck ==
    /\ stage = "Authenticated"
    /\ IF ~HasCmdName(Resolve(request))
       THEN stage' = "Crashed" /\ response' = 500
       ELSE IF ProtectionRefuses(REST_BEARER_TOKEN, request)
       THEN stage' = "RejectedPolicyError" /\ response' = 403
       ELSE stage' = "Authorized" /\ response' = response
    /\ UNCHANGED request
    /\ FrozenHTTP

\* line 588: handler(request) is called and awaited; make_handler runs to
\* its first suspension, in request.json(), or for a request without a
\* body through the wrapper into the handler
Dispatch ==
    /\ stage = "Authorized"
    /\ stage' = "Dispatched"
    /\ \E can_read_body \in BOOLEAN :
          Becomes(1, IF can_read_body
                     THEN [IdleHandler EXCEPT !.op = request.path, !.pc = "body"]
                     ELSE Invoked(request.path, EmptyPayload, ActiveCount))
    /\ UNCHANGED <<ALLOW_ALL_USER_COMMANDS, COMPILED_WHITELIST_REGEX, REST_BEARER_TOKEN,
                   tasks, last, sem_value, command_str, decision, hash_order, request,
                   response, trigger>>

\* a handler goes on: its body is read, it takes its next step, its call
\* is resumed by the event loop, or it returns
Handling(s) ==
    /\ ~InMiddleware
    /\ \/ BodyRead(s, BodyPayloads(handlers[s].op))
       \/ HandlerStep(s)
       \/ Woken(s)
       \/ ChildSpawned(s)
       \/ ChildExited(s)
       \/ ChildTimedOut(s)
       \/ ChildReaped(s)
       \/ Return(s)

\* line 588: the awaited handler has returned its response, or aiohttp has
\* made the response for the exception that left it
Handled ==
    /\ stage = "Dispatched"
    /\ response = 0
    /\ handlers[1].pc \in {"done", "failed"}
    /\ response' = handlers[1].status
    /\ handlers' = [handlers EXCEPT ![1] = IdleHandler]
    /\ UNCHANGED <<ALLOW_ALL_USER_COMMANDS, COMPILED_WHITELIST_REGEX, REST_BEARER_TOKEN,
                   tasks, last, sem_value, command_str, decision, hash_order, request, stage, trigger>>

\* the calls of the requests that are not followed: they arrive while the
\* followed request is not in the middleware, lines 571-588 run for them
\* without suspension, and their handlers call execute_command
Others ==
    /\ ~InMiddleware
    /\ \/ OtherCall
       \/ OtherSpawned
       \/ OtherExited

\* the response is sent; the server waits for the next request
Respond ==
    /\ stage \in {"Dispatched", "RejectedAuthError", "RejectedPolicyError", "Crashed"}
    /\ response # 0
    /\ stage' = "idle"
    /\ request' = IdleRequest
    /\ response' = 0
    /\ FrozenHTTP

NextHTTP ==
    \/ Receive
    \/ TokenCheck
    \/ ProtectionCheck
    \/ Dispatch
    \/ Handling(1)
    \/ Handled
    \/ Others
    \/ Respond

SpecHTTP == InitHTTP /\ [][NextHTTP]_vars

-----------------------------------------------------------------------------
(* SpecLive: the engine under the calls of launch_url and display_off,     *)
(* with a fair event loop.  communicate() (line 295) returns when stdout   *)
(* and stderr reach end of file, that is when every process holding the    *)
(* write ends of the pipes has closed them: the child, and for a command   *)
(* that /bin/sh runs in the background the program left behind.            *)

\* the execute_command calls of handle_launch_url and handle_display_off
LiveSteps ==
    { PlanLaunchUrl([EmptyPayload EXCEPT !["url"] = JStr(<<"a",".","i","o">>)]).steps[1],
      PlanDisplayOff.steps[1] }

LiveCall ==
    \E step \in LiveSteps :
        Called(Entry(EngineConfig, step.command, step.allow_command), step.timeout)

\* /bin/sh terminates and leaves a program in the background
ShellExit ==
    \E f \in Frames :
        \E left \in f.background \ NoBackground :
            /\ f.pc = "communicate" /\ f.proc = "running"
            /\ Step(f, [f EXCEPT !.proc = "exited", !.background = {left}])

\* the child terminates, the pipes reach end of file and communicate()
\* returns
ExitReturns ==
    \E f \in Frames, returncode \in {0, 1} :
        /\ f.pc = "communicate" /\ f.proc = "running" /\ f.background \cap NoBackground # {}
        /\ Step(f, OnCompleted(f, returncode))

\* the program left in the background terminates (the browser is closed),
\* the pipes reach end of file and communicate() returns with the exit
\* status of /bin/sh
ProgramEnds ==
    \E f \in Frames, returncode \in {0, 1} :
        /\ f.pc = "communicate" /\ f.proc = "exited"
        /\ f.background = {"last"} => returncode = 0
        /\ Step(f, OnCompleted(f, returncode))

NextLive ==
    \/ LiveCall
    \/ Wake
    \/ SpawnDone
    \/ ShellExit
    \/ ExitReturns
    \/ ProgramEnds
    \/ Timeout
    \/ KillWaitDone
    \/ Resume

\* the event loop runs every coroutine that is ready, timers fire, and
\* every child process terminates; nothing makes a browser terminate
LiveFairness ==
    /\ WF_vars(Wake)
    /\ WF_vars(SpawnDone)
    /\ WF_vars(ShellExit)
    /\ WF_vars(ExitReturns)
    /\ WF_vars(Timeout)
    /\ WF_vars(KillWaitDone)
    /\ WF_vars(Resume)

SpecLive == Init /\ [][NextLive]_vars /\ LiveFairness

-----------------------------------------------------------------------------
(* Properties of the execution engine (Spec)                               *)

\* the frames in flight and the call that has just ended
Calls == Frames \cup {last}

\* the number of frames of the bag that satisfy a condition
PermitHolders == BagCardinality([f \in {g \in Frames : g.permit} |-> tasks[f]])
HandedOver == BagCardinality([f \in {g \in Frames : g.pc = "woken"} |-> tasks[f]])
LiveChildren ==
    BagCardinality([f \in {g \in Frames : g.proc \in {"running", "killed"}} |-> tasks[f]])

\* C1: a call with allow_command = False whose command is_command_allowed
\* judges Denied never has a child process and never holds a permit: it
\* ends at once, returning the {success: False, error} of the policy gate,
\* whatever the other calls are doing.
C1_DeniedNeverSpawned ==
    \A f \in Calls :
        f.denied => /\ f.pc = "returned"
                    /\ f.result = "blocked"
                    /\ f.proc = "none"
                    /\ ~f.permit
                    /\ ~f.tracked

\* a denied call has just returned while the children of other calls run
C1_Witness ==
    /\ last.denied
    /\ last.result = "blocked"
    /\ \E f \in Frames : f.proc = "running" /\ f.pc = "communicate"

\* C2 (as stated): at most MAX_CONCURRENT_COMMANDS children spawned by
\* execute_command have not yet exited.
C2_LiveChildrenBounded == LiveChildren <= MAX_CONCURRENT_COMMANDS

\* C3: a call that has ended, by return or by an exception, holds no permit
\* and has no handle in _active_processes; every permit is either free,
\* held by a call in flight or handed to a waiting call that has yet to
\* resume, and every handle in _active_processes belongs to a call in
\* flight that holds a permit.
C3_NoLeak ==
    /\ last # NoFrame => ~last.permit /\ ~last.tracked
    /\ sem_value + PermitHolders + HandedOver = MAX_CONCURRENT_COMMANDS
    /\ \A f \in Frames : f.tracked => f.permit /\ f.pc \in {"communicate", "killwait"}
    /\ ActiveCount <= MAX_CONCURRENT_COMMANDS

\* a call that held a permit and a handle has just been cancelled while its
\* child was running, and another call is waiting for its killed child
C3_Witness ==
    /\ last.pc = "raised"
    /\ last.result = "cancelled"
    /\ last.proc = "running"
    /\ \E f \in Frames : f.pc = "killwait"

\* C4 (as stated): once create_subprocess_* has returned the handle, the
\* handle is in _active_processes exactly as long as the child has not
\* been reaped.
C4_TrackedIffNotReaped ==
    \A f \in Frames :
        f.pc \in {"communicate", "killwait", "orphan"} =>
            (f.tracked <=> f.proc \in {"running", "killed"})

\* C5 (as stated): a call returns the timeout error only after its child
\* has been killed and reaped, the error names the call's timeout, and at
\* the return the handle is discarded, the permit released and no process
\* of the command is alive; while the killed child is waited for, the
\* handle stays in _active_processes and the permit is held.
C5_TimeoutLeavesNothing ==
    /\ \A f \in Calls :
          f.result = "timeout" => /\ f.pc = "returned"
                                  /\ f.proc = "reaped"
                                  /\ ~f.tracked
                                  /\ ~f.permit
                                  /\ f.t = SHORT_TIMEOUT
                                  /\ ~f.survivor
    /\ \A f \in Frames :
          f.pc = "killwait" => /\ f.proc = "killed"
                               /\ f.tracked
                               /\ f.permit

\* C6 (as stated): as long as a child is running, the permit taken for it
\* is held.
C6_PermitHeldWhileRunning == \A f \in Frames : f.proc = "running" => f.permit

-----------------------------------------------------------------------------
(* Properties of is_command_allowed (SpecPolicy)                           *)

Decided == decision # Pending

\* some fragment of the command fails shlex.split
AnyPartFailsParse(cmd) ==
    \E i \in 1..Len(SEP_REGEX_split(cmd)) :
        /\ Strip(SEP_REGEX_split(cmd)[i]) # <<>>
        /\ ~shlex_split(Strip(SEP_REGEX_split(cmd)[i])).ok

WhitelistSet == COMPILED_WHITELIST_REGEX.kind # "none"

AllWhitelisted ==
    /\ Programs(command_str) # {}
    /\ \A p \in Programs(command_str) : WhitelistFullmatch(COMPILED_WHITELIST_REGEX, p)

AllBlacklisted == \A p \in Programs(command_str) : COMPILED_BLACKLIST_REGEX(p)

AllInstalledInAllowedPaths ==
    \A p \in Programs(command_str) : which(p) # <<>> /\ is_path_allowed(which(p))

\* C7 (as stated): with a whitelist set and the override off, a command
\* all of whose programs match the whitelist is Allowed.
C7_Original ==
    (Decided /\ ~ALLOW_ALL_USER_COMMANDS /\ WhitelistSet /\ AllWhitelisted)
        => decision.allowed

\* C7 (amended): with a whitelist set and the override off, a command that
\* names at least one program, all of whose programs match the whitelist
\* and resolve on the search path to an executable in an allowed
\* directory, is Allowed, whether or not the programs match the blacklist.
C7_WhitelistOverridesBlacklist ==
    (Decided /\ ~ALLOW_ALL_USER_COMMANDS /\ WhitelistSet /\ AllWhitelisted
        /\ AllInstalledInAllowedPaths)
        => decision = Result(TRUE, "Safe - Whitelisted", <<>>)

\* a command whose programs are all blacklisted has been Allowed by the
\* whitelist
C7_Witness ==
    /\ Decided /\ ~ALLOW_ALL_USER_COMMANDS /\ WhitelistSet
    /\ AllWhitelisted /\ AllInstalledInAllowedPaths /\ AllBlacklisted
    /\ decision.allowed

\* C8 (as stated): with no whitelist set, a command all of whose programs
\* match the blacklist is Denied.
C8_Original ==
    (Decided /\ ~WhitelistSet /\ Programs(command_str) # {} /\ AllBlacklisted)
        => ~decision.allowed

\* C8 (amended): with the override off and no whitelist set, a command all
\* of whose programs match the blacklist is Denied; and "Blacklisted
\* program" is the reason of a denial only when no whitelist is set.
C8_BlacklistDenies ==
    /\ (Decided /\ ~ALLOW_ALL_USER_COMMANDS /\ ~WhitelistSet /\ AllBlacklisted)
          => ~decision.allowed
    /\ (Decided /\ decision.reason = "Blacklisted program") => ~WhitelistSet

\* a command of installed programs has been Denied as blacklisted
C8_Witness ==
    /\ Decided /\ ~ALLOW_ALL_USER_COMMANDS /\ ~WhitelistSet
    /\ Programs(command_str) # {} /\ AllBlacklisted
    /\ decision.reason = "Blacklisted program"

\* C9 (as stated): with the override off, a command with a fragment that
\* fails shlex.split, with a program that is not on the search path, or
\* with no program at all, is never Allowed.
C9_FailClosed ==
    (/\ Decided
     /\ ~ALLOW_ALL_USER_COMMANDS
     /\ \/ AnyPartFailsParse(command_str)
        \/ \E p \in Programs(command_str) : which(p) = <<>>
        \/ Programs(command_str) = {})
        => ~decision.allowed

-----------------------------------------------------------------------------
(* Properties of security_middleware (SpecHTTP)                            *)

\* the steps of a request: through the two checks to its dispatch, or to
\* one of the two rejection states, and from its end to the next request
RequestSteps ==
    { <<"idle", "Unauthenticated">>,
      <<"Unauthenticated", "Authenticated">>, <<"Unauthenticated", "RejectedAuthError">>,
      <<"Authenticated", "Authorized">>, <<"Authenticated", "RejectedPolicyError">>,
      <<"Authorized", "Dispatched">>,
      <<"Dispatched", "idle">>, <<"RejectedAuthError", "idle">>,
      <<"RejectedPolicyError", "idle">> }

\* C10 (as stated): with a token set, a request whose Authorization header
\* is not exactly "Bearer <token>" ends in RejectedAuthError with status
\* 401 and is never dispatched; every request goes Unauthenticated,
\* Authenticated, Authorized, Dispatched in this order, or ends in
\* RejectedAuthError or RejectedPolicyError without being dispatched.
C10_TokenGate ==
    /\ [](/\ (/\ REST_BEARER_TOKEN # None
              /\ request.auth # BearerHeader(REST_BEARER_TOKEN)
              /\ stage \notin {"idle", "Unauthenticated"})
                => stage = "RejectedAuthError" /\ response = 401
          /\ stage = "RejectedAuthError" => response = 401
          /\ stage = "RejectedPolicyError" => response = 403
          /\ response \in {200, 404} => stage = "Dispatched")
    /\ [][stage' # stage => <<stage, stage'>> \in RequestSteps]_vars

\* the request in hand names a protected operation and comes from an
\* address that is not loopback
ProtectedFromOutside ==
    /\ request.path \in PROTECTED_COMMANDS
    /\ RemoteIp(request) \notin Loopback

\* the middleware has settled the request in hand
Settled ==
    /\ stage \in {"Dispatched", "RejectedAuthError", "RejectedPolicyError", "Crashed"}
    /\ response # 0

\* C11 (as stated): with a token configured, a request to a protected
\* route from a non-loopback address that has no Authorization header is
\* answered 403.
C11_Original ==
    (REST_BEARER_TOKEN # None /\ ProtectedFromOutside /\ request.auth = <<>> /\ Settled)
        => response = 403

\* the statuses a request gets once make_handler is called for it: 200 or
\* 500 from make_handler itself (lines 607, 610), 500 or 413 from aiohttp
\* when request.json() raises (line 604)
HandlerStatuses == {200, 413, 500}

\* C11 (amended): with a token configured, a request to a protected route
\* from a non-loopback address that has no Authorization header is
\* answered 401 by the token check and make_handler is not called for it;
\* the same request with the header "Bearer <token>" is never answered 401
\* or 403: it passes both checks, make_handler is called for it (line 588)
\* and the response is the one that call ends with.
C11_TokenLiftsProtection ==
    (REST_BEARER_TOKEN # None /\ ProtectedFromOutside) =>
        /\ (request.auth = <<>> /\ stage # "Unauthenticated") =>
              /\ stage = "RejectedAuthError"
              /\ response = 401
              /\ handlers[1] = IdleHandler
        /\ (request.auth = BearerHeader(REST_BEARER_TOKEN) /\ request.method = "POST") =>
              /\ stage \notin {"RejectedAuthError", "RejectedPolicyError", "Crashed"}
              /\ Settled => stage = "Dispatched" /\ response \in HandlerStatuses
              /\ (stage = "Dispatched" /\ response = 0) => handlers[1].op = request.path

\* a protected route was asked for from outside without a header while a
\* token is configured, and the request has been answered
C11_Witness ==
    /\ REST_BEARER_TOKEN # None
    /\ ProtectedFromOutside
    /\ request.auth = <<>>
    /\ request.method = "POST"
    /\ stage = "RejectedAuthError"
    /\ response = 401

\* the request in hand is routed to a registered operation
ToOperation == request.path \in FunctionRegistry /\ request.method \in RouteMethods(request.path)

\* C12: with no token configured, a request for a protected operation from
\* a non-loopback address (an unknown address included) is answered 403 and
\* make_handler is never called for it, while for a request for a protected
\* operation from loopback and for every request for a non-protected
\* operation make_handler of the operation is called (line 588) and the
\* response is the one that call ends with, whatever the Authorization
\* header.
C12_LoopbackOnlyWithoutToken ==
    (REST_BEARER_TOKEN = None /\ ToOperation) =>
        /\ ProtectedFromOutside =>
              /\ stage \notin {"Authorized", "Dispatched"}
              /\ handlers[1] = IdleHandler
              /\ Settled => stage = "RejectedPolicyError" /\ response = 403
        /\ ~ProtectedFromOutside =>
              /\ stage \notin {"RejectedAuthError", "RejectedPolicyError", "Crashed"}
              /\ Settled => stage = "Dispatched" /\ response \in HandlerStatuses
              /\ (stage = "Dispatched" /\ response = 0) => handlers[1].op = request.path

\* without a token, run_command from another host has been refused
C12_Witness ==
    /\ REST_BEARER_TOKEN = None
    /\ request.path = "run_command"
    /\ request.method = "POST"
    /\ request.remote = "192.168.1.20"
    /\ stage = "RejectedPolicyError"
    /\ response = 403

\* C14 (as stated): a request to a path that is neither a registered
\* operation nor /health is answered 404, for every method, with or without
\* a token configured (with valid credentials when one is configured).
C14_UnknownPathIs404 ==
    (/\ request.path \notin FunctionRegistry \cup {"health", ""}
     /\ TokenAccepted(REST_BEARER_TOKEN, request.auth)
     /\ Settled)
        => response = 404

\* C15 (as stated): GET /health is answered 200 {"status": "ok"} without
\* any token or protection check, from any address, with or without an
\* Authorization header, with or without a token configured.
C15_HealthAlwaysOk ==
    (request.path = "health" /\ request.method = "GET" /\ Settled) => response = 200

-----------------------------------------------------------------------------
(* Properties of the registered operations (SpecOp, SpecServe)            *)

\* the requests make_handler has built a response for
Answered == {handlers[s] : s \in {r \in Slots : handlers[r].pc = "done"}}

\* C13 (as stated): a request for an operation that declares required
\* parameters, with a payload lacking one of them, is answered 400 and the
\* handler is not run, whatever other keys the payload has.
C13_MissingRequiredIs400 ==
    \A h \in Answered :
        (\E k \in Required(h.op) : ~Has(h.payload, k)) => h.status = 400 /\ ~h.handler_ran

\* the dicts of the calls the policy check stopped
BlockedResults(h) == {h.results[i] : i \in {j \in 1..Len(h.results) : h.results[j].kind = "blocked"}}

\* C16 (as stated): a run_command or run_commands request whose command is
\* denied by the command policy is answered 403, and the body does not say
\* which rule matched: no rule and no program is named in it.
C16_DeniedIs403Generic ==
    \A h \in Answered :
        (h.op \in {"run_command", "run_commands"} /\ BlockedResults(h) # {}) =>
            /\ h.status = 403
            /\ \A r \in BlockedResults(h) : r.reason = NoReason

\* the dicts of the calls whose child ran and failed: non-zero exit status,
\* or killed at the timeout
FailedResults(h) ==
    {h.results[i] : i \in {j \in 1..Len(h.results) : h.results[j].kind \in {"failed", "timeout"}}}

\* C17 (as stated): a command that was executed and failed, by a non-zero
\* exit status or by the kill at its timeout, is reported with success
\* false in its dict and in the body of a response with status 200, never
\* as an HTTP error; the dict of an executed command has success true
\* exactly when its exit status is 0, and so has the body of an operation
\* that ran one command.
C17_FailureInsideOk ==
    \A s \in Slots :
        LET h == handlers[s] IN
        /\ \A i \in 1..Len(h.results) :
              /\ h.results[i].kind \in {"ok", "failed"} =>
                    (h.results[i].success <=> h.results[i].returncode = 0)
              /\ h.results[i].kind = "timeout" => ~h.results[i].success
        /\ (h.pc = "done" /\ FailedResults(h) # {}) =>
              h.status = 200 /\ ~h.success
        /\ (h.pc = "done" /\ h.op \notin {"run_commands", "display_on"}
               /\ Len(h.results) = 1 /\ h.results[1].kind \in {"ok", "failed"}) =>
              h.status = 200 /\ (h.success <=> h.results[1].returncode = 0)

\* the requests in hand: make_handler has handed their payload to the
\* wrapper
InHand == {handlers[s] : s \in {r \in Slots : handlers[r].pc \in {"handler", "await", "done"}}}

\* the payload passes the wrapper once its timeout key is taken out
RestAccepted(h) == WrapperError(h.op, [h.payload EXCEPT !["timeout"] = Absent]) = "none"

\* C18 (as stated): the implicit timeout parameter of every operation is
\* normalised before the handler runs: absent, or a number <= 0, means no
\* timeout and the call proceeds; any other value must be a positive
\* integer, and a value that is not is rejected before the handler runs.
C18_TimeoutNormalised ==
    \A h \in InHand :
        LET v == h.payload["timeout"] IN
        RestAccepted(h) =>
            /\ (v.t = "absent" \/ (v.t = "int" /\ v.n <= 0)) => h.handler_ran
            /\ (v.t = "int" /\ v.n > 0) => h.handler_ran
            /\ v.t \in {"float", "str"} => ~h.handler_ran

XsetOn == Xset(<< <<"d","p","m","s">>, <<"f","o","r","c","e">>, <<"o","n">> >>)

\* C19 (as stated): display_on accepts every non-negative integer timeout:
\* 0 is accepted and disables blanking ('xset s off', 'xset -dpms' after
\* the display is forced on), a positive value sets the blanking timeout,
\* and without a timeout the display is only forced on.
C19_DisplayOnTimeout ==
    \A h \in Answered :
        LET v == h.payload["timeout"] IN
        (h.op = "display_on" /\ RestAccepted(h)) =>
            /\ v.t = "absent" => h.status = 200 /\ h.spawned = <<XsetOn>>
            /\ (v.t = "int" /\ v.n = 0) =>
                  /\ h.status = 200
                  /\ h.spawned = <<XsetOn, Xset(<< <<"s">>, <<"o","f","f">> >>),
                                   Xset(<< <<"-","d","p","m","s">> >>)>>
            /\ (v.t = "int" /\ v.n > 0) =>
                  /\ h.status = 200
                  /\ h.spawned = <<XsetOn, Xset(<< <<"s">>, IntStr(v.n) >>),
                                   Xset(<< <<"d","p","m","s">>, IntStr(v.n), IntStr(v.n), IntStr(v.n) >>)>>

XsetOff == Xset(<< <<"d","p","m","s">>, <<"f","o","r","c","e">>, <<"o","f","f">> >>)

\* the slots with a display_off call in hand: a request for display_off
\* whose payload the wrapper has accepted, so that handle_display_off is
\* called (line 415)
DisplayOffCalls ==
    {s \in Slots : /\ handlers[s] \in InHand
                   /\ handlers[s].op = "display_off"
                   /\ handlers[s].handler_ran}

\* the call of slot s has not yet gone past line 278: the handler has yet
\* to call execute_command, or the call waits for a permit
BeforeSpawn(s) ==
    \/ handlers[s].pc = "handler" /\ handlers[s].plan # <<>>
    \/ handlers[s].pc = "await" /\ FrameOf(s).pc \in {"acquire", "woken"}

\* C20: every display_off call, whatever the other requests being served
\* and whether or not it has to wait for a permit, spawns
\* 'xset dpms force off' exactly once: nothing until it has a permit, that
\* one child from then on, and it is answered 200 with success true when
\* that child exited 0 (and false otherwise); no call is answered from
\* another call's result.
C20_DisplayOffEachCall ==
    \A s \in DisplayOffCalls :
        LET h == handlers[s] IN
        /\ h.spawned = IF BeforeSpawn(s) THEN <<>> ELSE <<XsetOff>>
        /\ h.pc = "await" => FrameOf(s).owner = s /\ tasks[FrameOf(s)] = 1
        /\ h.pc = "done" =>
              /\ h.status = 200
              /\ Len(h.results) = 1
              /\ h.success = (h.results[1].kind = "ok" /\ h.results[1].returncode = 0)

\* two display_off calls served concurrently, each answered success true
\* after its own child exited 0
C20_Witness ==
    /\ \A s \in 1..2 :
          /\ handlers[s].op = "display_off"
          /\ handlers[s].pc = "done"
          /\ handlers[s].success
          /\ handlers[s].spawned = <<XsetOff>>
          /\ handlers[s].results[1].returncode = 0

\* the requests suspended in a call of execute_command whose child exists
InFlight ==
    {handlers[s] : s \in {r \in Slots : handlers[r].pc = "await" /\ FrameOf(r).proc # "none"}}

\* the text has a quote, a backquote, white space or a `$` that introduces
\* an expansion
ShellSignificant(s) ==
    \E i \in 1..Len(s) :
        \/ s[i] \in {"\"", "'", BQ} \cup Whitespace
        \/ s[i] = "$" /\ i < Len(s)

\* C21: dispatch mode of execute_command.  The child of a command given as
\* an argument list is created by exec with that list, never by a shell;
\* the child of a string command is /bin/sh -c only if the string has
\* shell-significant syntax (a quote, a backquote, white space, a '$'
\* before another character) or the override is active, and the string is
\* then handed over as it is; in every other case the string is split
\* into words and exec'd, and a string without such syntax and without the
\* override is always exec'd.
C21_DispatchMode ==
    \A h \in InFlight :
        LET command == Head(h.plan).command
            args == h.spawned[Len(h.spawned)]
        IN  /\ command.kind = "list" => args = List(command.val)
            /\ command.kind = "str" =>
                  /\ args.kind = "str" =>
                        /\ ShellSignificant(Strip(command.val)) \/ ALLOW_ALL_USER_COMMANDS
                        /\ args.val = Strip(command.val)
                  /\ args.kind = "list" =>
                        /\ shlex_split(Strip(command.val)).ok
                        /\ args.val = shlex_split(Strip(command.val)).tokens
                  /\ (~ShellSignificant(Strip(command.val)) /\ ~ALLOW_ALL_USER_COMMANDS) =>
                        args.kind = "list"

\* without the override, run_command with "ls" in double quotes is in
\* flight: the quotes alone make line 267 choose the shell, and /bin/sh -c
\* is handed the string as it is
C21_Witness ==
    /\ ~ALLOW_ALL_USER_COMMANDS
    /\ \E h \in InFlight :
          /\ h.op = "run_command"
          /\ Head(h.plan).command = Str(<<"\"","l","s","\"">>)
          /\ ShellSignificant(Head(h.plan).command.val)
          /\ h.spawned = << Str(<<"\"","l","s","\"">>) >>

\* C22 (as stated): is_command_allowed is deterministic and free of side
\* effects: a call with the same command text, policy and search path as an
\* earlier call returns the same (allowed, reason) pair, also when several
\* programs of the command would be denied, and a call changes nothing but
\* its own value.
C22_Deterministic ==
    [][/\ decision # Pending => decision' = decision
       /\ decision' # decision =>
             UNCHANGED <<ALLOW_ALL_USER_COMMANDS, COMPILED_WHITELIST_REGEX, command_str, hash_order>>]_vars

\* the program each operation runs on the trusted path
TrustedProgram(op) ==
    CASE op = "launch_url" -> <<"l","u","a","k","i","t">>
      [] op = "refresh_browser" -> <<"x","d","o","t","o","o","l">>
      [] OTHER -> <<"x","s","e","t">>

\* C23 (as stated): a command executed with allow_command=True starts the
\* program of its operation and nothing else, whatever text the caller
\* supplied; in particular launch_url, whose string goes to /bin/sh, starts
\* only luakit for every url that passes is_valid_url.
C23_TrustedCommandFixed ==
    \A h \in InFlight :
        (Head(h.plan).allow_command /\ ShellRead(h.spawned[Len(h.spawned)])) =>
            Started(h.spawned[Len(h.spawned)]) = {TrustedProgram(h.op)}

\* the caller supplied a key outside required, optional and "timeout"
HasUnknownKey(h) ==
    \E k \in PayloadKeys :
        Has(h.payload, k) /\ k \notin Required(h.op) \cup Optional(h.op) \cup {"timeout"}

\* C24 (as stated): a call that carries a key outside required, optional
\* and "timeout" is rejected and its handler is not invoked; a call whose
\* keys all lie in that set is never rejected as having unknown parameters,
\* also when its parameter set is submitted to the wrapper a second time.
C24_UnknownParameters ==
    \A h \in Answered :
        /\ HasUnknownKey(h) => ~h.handler_ran /\ h.status = 500
        /\ ~HasUnknownKey(h) => h.error # "Unknown parameters"

\* the args string of the request has one of the disallowed shell tokens
HasDangerousToken(h) == \E tok \in DANGEROUS_SHELL_TOKENS : Contains(h.payload["args"].s, tok)

\* C25: an xset request whose args string has a disallowed shell token
\* spawns nothing; any other xset request spawns at most one child, and
\* that child is created by create_subprocess_exec, never by /bin/sh, with
\* the argument vector of xset followed by the words of args: the program
\* executed is xset, whatever the args value and the override.
C25_XsetOnly ==
    \A h \in InHand :
        h.op = "xset" =>
            /\ HasDangerousToken(h) => h.spawned = <<>>
            /\ Len(h.spawned) <= 1
            /\ \A i \in 1..Len(h.spawned) :
                  /\ h.spawned[i].kind = "list"
                  /\ h.spawned[i] = Xset(shlex_split(h.payload["args"].s).tokens)
                  /\ Head(h.spawned[i].val) = <<"x","s","e","t">>

\* with the override active, an xset request with args -q is in flight:
\* its child is created by exec with the argument vector xset, -q
C25_Witness ==
    /\ ALLOW_ALL_USER_COMMANDS
    /\ \E h \in InFlight :
          /\ h.op = "xset"
          /\ h.payload["args"] = JStr(<<"-","q">>)
          /\ ~HasDangerousToken(h)
          /\ h.spawned = << List(<< <<"x","s","e","t">>, <<"-","q">> >>) >>

\* every validator configured for a key the caller supplied returns true
ValidatorsPass(h) ==
    \A k \in Validated(h.op) : Has(h.payload, k) => ValidatorTest(h.op, k, h.payload[k]) = "pass"

\* C26 (as stated): the handler of a registered operation is invoked only
\* when every required key is present, no unknown key is supplied, every
\* validator of a supplied key passes and timeout is valid, and it then
\* finds _cmd_name set to the operation name; a call whose validator does
\* not pass is aborted with "<key> is invalid", its handler is not invoked
\* and nothing is spawned.
C26_CheckedBeforeInvoked ==
    \A h \in InHand :
        /\ h.handler_ran =>
              /\ \A k \in Required(h.op) : Has(h.payload, k)
              /\ ~HasUnknownKey(h)
              /\ ValidatorsPass(h)
              /\ ~TimeoutRejected(h.payload)
              /\ h.data["_cmd_name"] = JStr(OperationName(h.op))
        /\ ((\A k \in Required(h.op) : Has(h.payload, k)) /\ ~HasUnknownKey(h) /\ ~ValidatorsPass(h)) =>
              /\ ~h.handler_ran
              /\ h.spawned = <<>>
              /\ h.pc = "done" => h.error = "is invalid"

\* C27 (as stated): run_commands takes its entries one at a time in list
\* order: while entry i is in execute_command the results of entries 1..i-1
\* are in hand and nothing later has been looked at, and the request holds
\* a permit only during that call; an entry that fails, is blocked, times
\* out or has an invalid type does not stop the later ones: the request is
\* answered 200 with one result per entry in input order, and success is
\* true iff every entry succeeded.
C27_RunCommandsSequential ==
    \A s \in Slots :
        LET h == handlers[s] IN
        (h \in InHand /\ h.op = "run_commands" /\ h.handler_ran /\ h.payload["cmds"].t = "list") =>
            LET cmds == h.payload["cmds"].l IN
            /\ h.pc \in {"handler", "await"} => Len(h.results) + Len(h.plan) = Len(cmds)
            /\ h \in InFlight =>
                  h.spawned[Len(h.spawned)] = SpawnArgs(Config, cmds[Len(h.results) + 1])
            /\ FrameOf(s).permit => h.pc = "await"
            /\ BagCardinality([f \in {g \in Frames : g.owner = s} |-> tasks[f]]) <= 1
            /\ h.pc = "done" =>
                  /\ h.status = 200
                  /\ Len(h.results) = Len(cmds)
                  /\ \A i \in 1..Len(h.results) :
                        /\ h.results[i].kind = "invalid" <=> cmds[i] = Other
                        /\ h.results[i].kind = "blocked" <=>
                              /\ cmds[i] # Other
                              /\ Judged[ALLOW_ALL_USER_COMMANDS][cmds[i]].entry.entry = "blocked"
                  /\ h.success <=> \A i \in 1..Len(h.results) : h.results[i].success

\* an empty command, or a command that is not trusted and is denied
Refused(e) == IsEmptyCommand(e.command) \/ (~e.allow_command /\ e.denied)
RefusedEntries == {e \in EngineEntries : Refused(e)}

\* C28: in every state of the engine, whatever the number of permits held
\* and of callers queued, a call with an empty command or with a denied
\* command that is not trusted returns its failure result at once without
\* a permit; and the step in which such a call is made changes neither the
\* semaphore nor any other call.
C28_RefusedWithoutPermit ==
    /\ [](\A e \in RefusedEntries, timeout \in Timeouts :
            LET g == Enter(e, timeout, Locked) IN
            /\ g.pc = "returned"
            /\ g.result \in {"empty", "blocked"}
            /\ ~g.permit)
    /\ [][(last = NoFrame /\ last'.result \in {"empty", "blocked"}) =>
             /\ tasks' = tasks
             /\ sem_value' = sem_value
             /\ ~last'.permit]_vars

\* a denied call has just returned while every permit is held and a caller
\* is queued
C28_Witness ==
    /\ sem_value = 0
    /\ Waiters # {}
    /\ last.pc = "returned"
    /\ last.result = "blocked"
    /\ ~last.permit

\* the call that has just ended never had a child: its spawn failed
SpawnFailed(f) == f.result = "error" /\ f.proc = "none"

\* C29 (as stated): a call of execute_command whose spawn fails returns a
\* result dict, holds no permit and leaves no handle in the active set.
C29_SpawnFailureReturned ==
    SpawnFailed(last) => last.pc = "returned" /\ ~last.permit /\ ~last.tracked

\* C30 (as stated): with a fair event loop and children that terminate or
\* have a finite timeout, a caller waiting for a permit eventually gets
\* one, and the permits are never all held for ever, whatever requests for
\* launch_url and display_off arrive.
C30_NoStarvation ==
    /\ (Waiters # {}) ~> (Waiters = {})
    /\ []<>(PermitHolders < MAX_CONCURRENT_COMMANDS)

\* C31 (as stated): when is_command_allowed has allowed a string command
\* without the override and the command goes to the shell, every program
\* the shell starts for it is one of the program names is_command_allowed
\* extracted and checked.
C31_StartedWereChecked ==
    (/\ decision.allowed
     /\ ~ALLOW_ALL_USER_COMMANDS
     /\ UseShell(Config, Str(command_str))
     /\ ShRead(CmdStr(Str(command_str)))) =>
        ShPrograms(CmdStr(Str(command_str))) \subseteq Programs(CmdStr(Str(command_str)))

\* os.path.dirname of a path of at least one component
Dirname(path) == SubSeq(path, 1, Len(path) - 1)

\* C32 (as stated): a command is allowed by the checks only if, for each of
\* its programs, the directory that directly contains the symlink-resolved
\* executable is one of ALLOWED_PATHS.
C32_ContainingDirectoryAllowed ==
    (decision.allowed /\ ~ALLOW_ALL_USER_COMMANDS) =>
        \A p \in Programs(command_str) :
            /\ which(p) # <<>>
            /\ Dirname(realpath(which(p))) \in ALLOWED_PATHS

(***************************************************************************)
(* SpecTrigger: examples/ultrasonic-trigger.py with HA_BINARY_SENSOR       *)
(* unset, as shipped: the interpreter from its start to the main loop      *)
(* (ultrasonic-trigger.py:126-139, 345-349), the main loop (350-392) and   *)
(* the way out (133-135, 394-401).  `trigger` holds the place the script   *)
(* stands at (pc), its globals (display, loop_num, count, invalid_count),  *)
(* the request its last pass sent with the believed display state at that  *)
(* moment and the outcome, and the lengths of the runs of near and of far  *)
(* readings that end at the last reading.  A step ends where a global is   *)
(* assigned or where the script waits (GPIO, time.sleep, HTTP), so that    *)
(* the termination signal is taken at any of these places; one             *)
(* termination signal is followed.                                         *)
(*   pc   boot        the interpreter has started (lines 54-139 to run)    *)
(*        top         at `while True`, or asleep at the end of a pass      *)
(*        query       in GET /is_display_on (line 365)                     *)
(*        measure     in measure_distance, up to line 198                  *)
(*        restart     invalid_count is above the threshold (lines 200-206) *)
(*        near, far   the distance is judged, before line 376 resp. 381    *)
(*        near_count, far_count   before line 377 resp. 382                *)
(*        post_on, post_off       in display_on_print, display_off_print   *)
(*        exited      left by sys.exit(0) of handle_exit                   *)
(*        failed      left by sys.exit(1) (line 131)                       *)
(*        killed      ended by a signal before line 139                    *)
(***************************************************************************)
NEAR_ON_DIST == 150
FAR_OFF_DIST == 200
COUNT_ON_THRESH == 2
COUNT_OFF_THRESH == 4
GPIO_READINGS_TO_AVERAGE == 5
INVALID_COUNT_THRESHOLD == 10

\* passes of the loop followed in one run of the script
MaxLoops == 61
\* largest magnitude of count followed
MaxCount == 5

\* averaged distances (cm): near, the two thresholds, between them, far
Distances == {100, 150, 175, 200, 250}

Least(a, b) == IF a < b THEN a ELSE b
Greatest(a, b) == IF a > b THEN a ELSE b

\* the interpreter has been started on the script (by the caller, by
\* os.execvp at line 69 or by os.execv at line 206) and nothing of the
\* module has run; the globals, not assigned yet, are shown with the
\* values lines 167 and 345-347 give them
Launched ==
    [pc |-> "boot", running |-> TRUE, display |-> FALSE, loop_num |-> -1, count |-> 0,
     invalid_count |-> 0, sent |-> "none", believed |-> FALSE, succeeded |-> FALSE,
     near_run |-> 0, far_run |-> 0]

\* the script has ended at place pc with no request sent
Stopped(t, pc) == [t EXCEPT !.running = FALSE, !.pc = pc, !.sent = "none", !.succeeded = FALSE]

\* ha_binary_sensor_state(HA_BINARY_SENSOR) with no sensor configured
ha_binary_sensor_state == None

\* lines 351-365: loop_num += 1; once in 60 passes the display state is
\* read back (the sensor state is None, so nothing else happens)
LoopTop(t) ==
    LET u == [t EXCEPT !.loop_num = @ + 1, !.sent = "none", !.succeeded = FALSE] IN
    [u EXCEPT !.pc = IF u.loop_num % 60 = 0 /\ ha_binary_sensor_state = None
                     THEN "query" ELSE "measure"]

\* display = display_state(), which is False when the query fails
display_state_print(t, state) == [t EXCEPT !.display = state, !.pc = "measure"]

\* POST /display_on; display = True if it succeeded
display_on_print(t, ok) ==
    [t EXCEPT !.sent = "display_on", !.believed = t.display, !.succeeded = ok,
              !.display = IF ok THEN TRUE ELSE @]

\* POST /display_off; display = False if it succeeded
display_off_print(t, ok) ==
    [t EXCEPT !.sent = "display_off", !.believed = t.display, !.succeeded = ok,
              !.display = IF ok THEN FALSE ELSE @]

\* measure_distance marks the measurement invalid when at least half of
\* the readings are errors (line 198)
Invalid(errors) == 2 * errors >= GPIO_READINGS_TO_AVERAGE

\* line 200: measure_distance restarts the script
Restarts(t) == t.invalid_count > INVALID_COUNT_THRESHOLD

\* lines 208-209, 372-375, 380: a valid distance is returned and judged
OnDistance(t, distance) ==
    [t EXCEPT !.invalid_count = 0,
              !.near_run = IF distance < NEAR_ON_DIST THEN Least(@ + 1, COUNT_ON_THRESH) ELSE 0,
              !.far_run = IF distance > FAR_OFF_DIST THEN Least(@ + 1, COUNT_OFF_THRESH) ELSE 0,
              !.pc = IF distance < NEAR_ON_DIST THEN "near"
                     ELSE IF distance > FAR_OFF_DIST THEN "far"
                     ELSE "top"]

\* lines 199-207, 385-386: the measurement is invalid; the script goes on
\* to restart, or None is returned and the pass ends
OnInvalid(t) ==
    LET u == [t EXCEPT !.invalid_count = @ + 1, !.near_run = 0, !.far_run = 0] IN
    [u EXCEPT !.pc = IF Restarts(u) THEN "restart" ELSE "top"]

\* measure_distance (lines 168-209) with that many failed readings and
\* that average of the others
measure_distance(t, errors, distance) ==
    IF Invalid(errors) THEN OnInvalid(t) ELSE OnDistance(t, distance)

\* line 376: count = max(count, 0); line 381: count = min(count, 0)
Clamped(t) ==
    IF t.pc = "near" THEN [t EXCEPT !.count = Greatest(@, 0), !.pc = "near_count"]
    ELSE [t EXCEPT !.count = Least(@, 0), !.pc = "far_count"]

\* lines 377-378: count += 1, then display_on_print is called if the
\* display is believed off and count has reached COUNT_ON_THRESH;
\* lines 382-383 likewise for count -= 1 and display_off_print
Counted(t) ==
    IF t.pc = "near_count"
    THEN LET v == [t EXCEPT !.count = @ + 1] IN
         [v EXCEPT !.pc = IF ~v.display /\ v.count >= COUNT_ON_THRESH THEN "post_on" ELSE "top"]
    ELSE LET v == [t EXCEPT !.count = @ - 1] IN
         [v EXCEPT !.pc = IF v.display /\ v.count <= -COUNT_OFF_THRESH THEN "post_off" ELSE "top"]

\* lines 379, 384: the request is answered and the pass ends
Posted(t, ok) ==
    IF t.pc = "post_on" THEN [display_on_print(t, ok) EXCEPT !.pc = "top"]
    ELSE [display_off_print(t, ok) EXCEPT !.pc = "top"]

\* SIGINT, SIGTERM or SIGHUP inside the try block: sys.exit(0), then the
\* finally clause turns the display back on if it is believed off
Exited(t, ok) ==
    LET u == Stopped(t, "exited") IN
    IF ~u.display THEN display_on_print(u, ok) ELSE u

FrozenTrigger ==
    UNCHANGED <<ALLOW_ALL_USER_COMMANDS, COMPILED_WHITELIST_REGEX, REST_BEARER_TOKEN,
                tasks, last, sem_value, command_str, decision, hash_order, request, stage,
                response, handlers>>

\* lines 126-131: gpio.configure raises and the script leaves by
\* sys.exit(1), outside the try block of the main loop
ConfigureFails ==
    /\ trigger.pc = "boot"
    /\ trigger' = Stopped(trigger, "failed")
    /\ FrozenTrigger

\* a signal before its handler is installed (lines 138-139) has its
\* default action: the interpreter ends and nothing of the script runs on
Killed ==
    /\ trigger.pc = "boot"
    /\ trigger' = Stopped(trigger, "killed")
    /\ FrozenTrigger

\* a signal after lines 138-139 and before the try block (line 349):
\* sys.exit(0) with no finally clause around it
ExitBeforeLoop ==
    /\ trigger.pc = "boot"
    /\ trigger' = Stopped(trigger, "exited")
    /\ FrozenTrigger

\* lines 345-349: the try block of the main loop is entered
EnterLoop ==
    /\ trigger.pc = "boot"
    /\ trigger' = [trigger EXCEPT !.pc = "top"]
    /\ FrozenTrigger

\* the sleep of lines 388-392 ends, if any, and the next pass begins
Loop ==
    /\ trigger.pc = "top"
    /\ trigger.loop_num < MaxLoops
    /\ trigger' = LoopTop(trigger)
    /\ FrozenTrigger

\* GET /is_display_on is answered, or fails
Query ==
    /\ trigger.pc = "query"
    /\ \E state \in BOOLEAN : trigger' = display_state_print(trigger, state)
    /\ FrozenTrigger

\* the readings of measure_distance are taken
Measure ==
    /\ trigger.pc = "measure"
    /\ \E errors \in 0..GPIO_READINGS_TO_AVERAGE, distance \in Distances :
          trigger' = measure_distance(trigger, errors, distance)
    /\ FrozenTrigger

\* line 206: os.execv replaces the interpreter; nothing of it runs on,
\* the finally clause included
execv ==
    /\ trigger.pc = "restart"
    /\ trigger' = Launched
    /\ FrozenTrigger

Clamp ==
    /\ trigger.pc \in {"near", "far"}
    /\ trigger' = Clamped(trigger)
    /\ FrozenTrigger

Count ==
    /\ trigger.pc \in {"near_count", "far_count"}
    /\ Counted(trigger).count <= MaxCount
    /\ Counted(trigger).count >= -MaxCount
    /\ trigger' = Counted(trigger)
    /\ FrozenTrigger

Post ==
    /\ trigger.pc \in {"post_on", "post_off"}
    /\ \E ok \in BOOLEAN : trigger' = Posted(trigger, ok)
    /\ FrozenTrigger

\* the signal arrives inside the try block, wherever the script stands
handle_exit ==
    /\ trigger.running
    /\ trigger.pc # "boot"
    /\ \E ok \in BOOLEAN : trigger' = Exited(trigger, ok)
    /\ FrozenTrigger

InitTrigger ==
    /\ ALLOW_ALL_USER_COMMANDS = FALSE
    /\ COMPILED_WHITELIST_REGEX = None
    /\ REST_BEARER_TOKEN = None
    /\ tasks = EmptyBag
    /\ last = NoFrame
    /\ sem_value = MAX_CONCURRENT_COMMANDS
    /\ command_str = <<>>
    /\ decision = Pending
    /\ hash_order = Pending
    /\ request = IdleRequest
    /\ stage = "idle"
    /\ response = 0
    /\ handlers = <<>>
    /\ trigger = Launched

NextTrigger ==
    \/ ConfigureFails
    \/ Killed
    \/ ExitBeforeLoop
    \/ EnterLoop
    \/ Loop
    \/ Query
    \/ Measure
    \/ execv
    \/ Clamp
    \/ Count
    \/ Post
    \/ handle_exit

SpecTrigger == InitTrigger /\ [][NextTrigger]_vars

\* the request a pass of the loop sent followed the readings: display_on
\* only with the display believed off and COUNT_ON_THRESH near readings in
\* a row, display_off only with it believed on and COUNT_OFF_THRESH far
\* readings in a row, none on a reading that is neither near nor far
RequestFollowsReadings ==
    trigger.running =>
        /\ trigger.sent = "display_on" =>
              ~trigger.believed /\ trigger.near_run >= COUNT_ON_THRESH
        /\ trigger.sent = "display_off" =>
              trigger.believed /\ trigger.far_run >= COUNT_OFF_THRESH
        /\ (trigger.near_run = 0 /\ trigger.far_run = 0) => trigger.sent = "none"

\* within a run of the script, the believed display state changes only in
\* the step in which a request for that state succeeded
DisplayFollowsRequest ==
    (trigger.running /\ trigger'.running /\ trigger'.pc # "boot"
        /\ trigger'.display # trigger.display) =>
        /\ trigger'.sent = (IF trigger'.display THEN "display_on" ELSE "display_off")
        /\ trigger'.succeeded

\* C33 (as stated): in the trigger loop a display-on request is sent only
\* when the display is believed off and at least COUNT_ON_THRESH near
\* readings have occurred consecutively, a display-off request only when
\* it is believed on and at least COUNT_OFF_THRESH far readings have
\* occurred consecutively, a reading between the thresholds or an invalid
\* one sends nothing, and the believed display state changes only when the
\* corresponding request succeeds.
C33_HysteresisOnConsecutiveReadings ==
    /\ []RequestFollowsReadings
    /\ [][DisplayFollowsRequest]_vars

=============================================================================
